---------------------------- MODULE Spec2Model ----------------------------
(***************************************************************************)
(* A model of the Mycorrhizal mesh stack core: route table, identity       *)
(* cache, packet signing, the node's inbound pipeline (dedupe, announce    *)
(* handling, forwarding) and its outbound send path.                       *)
(*                                                                         *)
(* Python dicts are modelled as sequences of entries in insertion order,   *)
(* because the eviction loops pick the FIRST entry with the minimal        *)
(* timestamp in iteration order.  time.time() is the variable `now`.       *)
(***************************************************************************)
EXTENDS Integers, Sequences, FiniteSets, TLC

VARIABLES
    nodes,      \* per node: its Node object with its tables, phycores and callback logs
    inbox,      \* frames in flight: inbox[n][p] is what phycore p of node n will receive
    threads,    \* the position of each thread that runs code of node "bob"
    now,        \* the clock read by time.time()
    last        \* the last operation: its arguments, result and pre-state

vars == <<nodes, inbox, threads, now, last>>

(***************************************************************************)
(* Bounds of the model                                                     *)
(***************************************************************************)
RouteCap == 2        \* max_routes / max_entries of the tables under test
SmallTimeout == 1    \* route_timeout of the table under test, in ticks
MaxClock == 2        \* the clock stops advancing here
MaxOps == 3          \* number of route table calls in one run
CapOps == 4          \* number of table calls in one run at capacity
ExpOps == 3          \* number of operations in one run with ageing routes
SeenCap == 2         \* max_seen_packets of the node whose dedupe set fills up
DedupeOps == 5       \* number of frames that node receives in one run
AnnOps == 3          \* number of announce frames a node receives in one run
SmallConcurrent == 2 \* max_concurrent of a small TransferManager
SleepStep == 31      \* seconds that pass while the receiver of fragments waits
MaxSleeps == 2       \* number of such waits in one run
TmOps == 4           \* fragments a transfer manager handles in one run
MaxChunks == 3       \* data fragments of a transfer that ends with a pure FINAL marker
MaxIndex == 2        \* largest index of an arbitrary fragment
ArbOps == 3          \* arbitrary fragments handled in one run
RingHops == 4        \* max_hops of the nodes of the cycle of three
LoopHops == 5        \* max_hops of the nodes of the cycle of two
DrainOps == 3        \* announces that reach the relay with the tiny budget
MaxTimers == 4       \* announce timers created in one run
QueueOps == 3        \* frames received in one run of the announce queue specification
BurstLen == 10       \* announces queued before the service tick of the budget specification
SendOps == 3         \* operations of one run of the send_data specification
FwdOps == 2          \* number of frames a relay receives in one run
ChainOps == 4        \* number of user calls in one run of the three-node chain
ConcOps == 3         \* number of calls the threads of a node begin in one run
NetOps == 4          \* number of user calls in one run of the two-node network

(***************************************************************************)
(* Program constants                                                       *)
(***************************************************************************)
MAX_HOPS == 128              \* Node.max_hops
MAX_SEEN_PACKETS == 1000     \* Node.max_seen_packets = min(1000, max_cache_entries)
MAX_CACHE_ENTRIES == 1000    \* profile.max_cache_entries (edge tier)
ROUTE_TIMEOUT == 1800        \* RouteTable(route_timeout=1800)
DEFAULT_TTL == 32            \* Packet(ttl=32)
BOUNDARY_MAX_HOPS == 3       \* BOUNDARY interfaces forward hop_count <= 3
ANNOUNCE_PAYLOAD_LEN == 64   \* signing key (32) + encryption key (32)
COLONY_ID_LEN == 16          \* first 16 payload bytes name a colony
HEADER_SIZE == 32            \* packet.HEADER_SIZE
SIGNATURE_SIZE == 64         \* packet.SIGNATURE_SIZE
DEFAULT_ANNOUNCE_BUDGET == 2000000  \* 2% of the 100 Mbps default bandwidth, in bps
StartTime == 1000            \* time.time() when the node starts, in seconds
ANNOUNCE_BUDGET_PERCENT == 2 \* default announce_budget_percent
SlowBandwidth == 96000       \* bandwidth_bps given to a slow phycore
TinyBandwidth == 32000       \* bandwidth_bps given to a very slow phycore
FRAGMENT_DATA_SIZE == 140    \* fragments.FRAGMENT_DATA_SIZE
MAX_FRAGMENTS == 256         \* fragments.MAX_FRAGMENTS
MAX_TRANSFER_SIZE == 65536   \* fragments.MAX_TRANSFER_SIZE
TRANSFER_TIMEOUT == 60       \* fragments.TRANSFER_TIMEOUT
FRAGMENT_FLAG_FINAL == 1     \* fragments.FRAGMENT_FLAG_FINAL
NODE_MAX_CONCURRENT == 5     \* TransferManager(max_concurrent=5) of a Node
NONCE_SIZE == 12             \* bytes of nonce in front of a group ciphertext
TAG_SIZE == 16               \* bytes the Poly1305 tag adds to a ciphertext

(***************************************************************************)
(* Values                                                                  *)
(***************************************************************************)
None == "None"
Keys == {"kA", "kB", "kC"}
Addresses == {"aA", "aB", "aC"}
Interfaces == {"t1", "t2"}
HopValues == {0, 1}

(***************************************************************************)
(* Ordered-dict helpers                                                    *)
(***************************************************************************)
RemoveAt(s, i) == [j \in 1..(Len(s) - 1) |-> IF j < i THEN s[j] ELSE s[j + 1]]

IndexOf(s, k) ==
    IF \E i \in 1..Len(s) : s[i].key = k
    THEN CHOOSE i \in 1..Len(s) : s[i].key = k
    ELSE 0

HasKey(s, k) == IndexOf(s, k) /= 0

Lookup(s, k) == s[IndexOf(s, k)]

KeysOf(s) == {s[i].key : i \in 1..Len(s)}

\* d[k] = v on a dict
DictSet(d, k, v) ==
    IF HasKey(d, k) THEN [d EXCEPT ![IndexOf(d, k)].value = v]
    ELSE Append(d, [key |-> k, value |-> v])

\* the first entry, in iteration order, whose timestamp is minimal
FirstOldest(s) ==
    CHOOSE i \in 1..Len(s) :
        /\ \A j \in 1..Len(s) : s[i].timestamp <= s[j].timestamp
        /\ \A j \in 1..(i - 1) : s[j].timestamp > s[i].timestamp

(***************************************************************************)
(* RouteTable (routing/route_table.py)                                     *)
(***************************************************************************)
RouteEntry(destination, next_hop, interface, hop_count, t) ==
    [key |-> destination, next_hop |-> next_hop, interface |-> interface,
     hop_count |-> hop_count, timestamp |-> t]

RouteEntry_update(e, next_hop, interface, hop_count, t) ==
    [e EXCEPT !.next_hop = next_hop, !.interface = interface,
              !.hop_count = hop_count, !.timestamp = t]

RouteEntry_refresh(e, t) == [e EXCEPT !.timestamp = t]

RouteEntry_age(e, t) == t - e.timestamp

RouteTable_evict_oldest(routes) ==
    IF Len(routes) = 0 THEN routes ELSE RemoveAt(routes, FirstOldest(routes))

\* mutant: an equal-hops refresh rewrites the entry like a better route
RouteTable_add_or_update_RefreshRewrites(tbl, destination, next_hop, interface, hop_count, t) ==
    IF HasKey(tbl.routes, destination)
    THEN LET i == IndexOf(tbl.routes, destination)
             existing == tbl.routes[i]
         IN  IF hop_count < existing.hop_count
                \/ (hop_count = existing.hop_count /\ next_hop = existing.next_hop)
             THEN [routes |-> [tbl.routes EXCEPT ![i] =
                        RouteEntry_update(existing, next_hop, interface, hop_count, t)],
                   ret |-> TRUE]
             ELSE [routes |-> tbl.routes, ret |-> FALSE]
    ELSE LET kept == IF Len(tbl.routes) >= tbl.max_routes
                     THEN RouteTable_evict_oldest(tbl.routes)
                     ELSE tbl.routes
         IN  [routes |-> Append(kept,
                   RouteEntry(destination, next_hop, interface, hop_count, t)),
              ret |-> TRUE]

\* mutant: any different hop count overwrites the entry
RouteTable_add_or_update_AnyHops(tbl, destination, next_hop, interface, hop_count, t) ==
    IF HasKey(tbl.routes, destination)
    THEN LET i == IndexOf(tbl.routes, destination)
             existing == tbl.routes[i]
         IN  IF hop_count /= existing.hop_count
             THEN [routes |-> [tbl.routes EXCEPT ![i] =
                        RouteEntry_update(existing, next_hop, interface, hop_count, t)],
                   ret |-> TRUE]
             ELSE IF hop_count = existing.hop_count /\ next_hop = existing.next_hop
             THEN [routes |-> [tbl.routes EXCEPT ![i] = RouteEntry_refresh(existing, t)],
                   ret |-> TRUE]
             ELSE [routes |-> tbl.routes, ret |-> FALSE]
    ELSE LET kept == IF Len(tbl.routes) >= tbl.max_routes
                     THEN RouteTable_evict_oldest(tbl.routes)
                     ELSE tbl.routes
         IN  [routes |-> Append(kept,
                   RouteEntry(destination, next_hop, interface, hop_count, t)),
              ret |-> TRUE]

\* mutant: an offer that finds an expired entry replaces it
RouteTable_add_or_update_DropsStale(tbl, destination, next_hop, interface, hop_count, t) ==
    IF HasKey(tbl.routes, destination)
       /\ t - Lookup(tbl.routes, destination).timestamp <= tbl.route_timeout
    THEN LET i == IndexOf(tbl.routes, destination)
             existing == tbl.routes[i]
         IN  IF hop_count < existing.hop_count
             THEN [routes |-> [tbl.routes EXCEPT ![i] =
                        RouteEntry_update(existing, next_hop, interface, hop_count, t)],
                   ret |-> TRUE]
             ELSE IF hop_count = existing.hop_count /\ next_hop = existing.next_hop
             THEN [routes |-> [tbl.routes EXCEPT ![i] = RouteEntry_refresh(existing, t)],
                   ret |-> TRUE]
             ELSE [routes |-> tbl.routes, ret |-> FALSE]
    ELSE LET present == IF HasKey(tbl.routes, destination)
                        THEN RemoveAt(tbl.routes, IndexOf(tbl.routes, destination))
                        ELSE tbl.routes
             kept == IF Len(present) >= tbl.max_routes
                     THEN RouteTable_evict_oldest(present)
                     ELSE present
         IN  [routes |-> Append(kept,
                   RouteEntry(destination, next_hop, interface, hop_count, t)),
              ret |-> TRUE]

\* returns [routes |-> the table afterwards, ret |-> the bool returned]
RouteTable_add_or_update(tbl, destination, next_hop, interface, hop_count, t) ==
    IF HasKey(tbl.routes, destination)
    THEN LET i == IndexOf(tbl.routes, destination)
             existing == tbl.routes[i]
         IN  IF hop_count < existing.hop_count
             THEN [routes |-> [tbl.routes EXCEPT ![i] =
                        RouteEntry_update(existing, next_hop, interface, hop_count, t)],
                   ret |-> TRUE]
             ELSE IF hop_count = existing.hop_count /\ next_hop = existing.next_hop
             THEN [routes |-> [tbl.routes EXCEPT ![i] = RouteEntry_refresh(existing, t)],
                   ret |-> TRUE]
             ELSE [routes |-> tbl.routes, ret |-> FALSE]
    ELSE LET kept == IF Len(tbl.routes) >= tbl.max_routes
                     THEN RouteTable_evict_oldest(tbl.routes)
                     ELSE tbl.routes
         IN  [routes |-> Append(kept,
                   RouteEntry(destination, next_hop, interface, hop_count, t)),
              ret |-> TRUE]

\* mutant: an entry expires as soon as its age reaches route_timeout
RouteTable_get_route_ExpiresEarly(tbl, destination, t) ==
    IF ~HasKey(tbl.routes, destination)
    THEN [routes |-> tbl.routes, ret |-> <<>>]
    ELSE LET i == IndexOf(tbl.routes, destination)
         IN  IF RouteEntry_age(tbl.routes[i], t) >= tbl.route_timeout
             THEN [routes |-> RemoveAt(tbl.routes, i), ret |-> <<>>]
             ELSE [routes |-> tbl.routes, ret |-> <<tbl.routes[i]>>]

\* returns [routes |-> the table afterwards, ret |-> <<entry>> or <<>> for None]
RouteTable_get_route(tbl, destination, t) ==
    IF ~HasKey(tbl.routes, destination)
    THEN [routes |-> tbl.routes, ret |-> <<>>]
    ELSE LET i == IndexOf(tbl.routes, destination)
         IN  IF RouteEntry_age(tbl.routes[i], t) > tbl.route_timeout
             THEN [routes |-> RemoveAt(tbl.routes, i), ret |-> <<>>]
             ELSE [routes |-> tbl.routes, ret |-> <<tbl.routes[i]>>]

RouteTable_remove_route(tbl, destination) ==
    IF HasKey(tbl.routes, destination)
    THEN RemoveAt(tbl.routes, IndexOf(tbl.routes, destination))
    ELSE tbl.routes

(***************************************************************************)
(* IdentityCache (core/identity_cache.py)                                  *)
(***************************************************************************)
IdentityCache_evict_oldest(identities) ==
    IF Len(identities) = 0 THEN identities
    ELSE RemoveAt(identities, FirstOldest(identities))

\* mutant: a full cache evicts even when the address is already cached
IdentityCache_add_AlwaysEvicts(c, address, public_identity, receiving_interface, t) ==
    LET kept == IF Len(c.identities) >= c.max_entries
                THEN IdentityCache_evict_oldest(c.identities)
                ELSE c.identities
        entry == [key |-> address, identity |-> public_identity,
                  timestamp |-> t, interface |-> receiving_interface]
    IN  IF HasKey(kept, address)
        THEN [kept EXCEPT ![IndexOf(kept, address)] = entry]
        ELSE Append(kept, entry)

\* returns the identities dict afterwards
IdentityCache_add(c, address, public_identity, receiving_interface, t) ==
    LET kept == IF Len(c.identities) >= c.max_entries /\ ~HasKey(c.identities, address)
                THEN IdentityCache_evict_oldest(c.identities)
                ELSE c.identities
        entry == [key |-> address, identity |-> public_identity,
                  timestamp |-> t, interface |-> receiving_interface]
    IN  IF HasKey(kept, address)
        THEN [kept EXCEPT ![IndexOf(kept, address)] = entry]
        ELSE Append(kept, entry)

(***************************************************************************)
(* Crypto (platform/crypto_adapter.py, CPython branch) and identities      *)
(*                                                                         *)
(* A key pair is named by one key id.  A signature is the pair of the      *)
(* signing key and the signed message; SHA-256 is collision free, so a     *)
(* digest is modelled by the hashed value itself.                          *)
(***************************************************************************)
CryptoBackend_sign(private_key, message) == [signer |-> private_key, msg |-> message]

CryptoBackend_verify(public_key, message, signature) ==
    signature.signer = public_key /\ signature.msg = message

CryptoBackend_hash_sha256(data) == <<"sha256", data>>

\* sha256(signing_public_key)[:16]
PublicIdentity_generate_address(signing_public_key) ==
    CASE signing_public_key = "kA" -> "aA"
      [] signing_public_key = "kB" -> "aB"
      [] signing_public_key = "kC" -> "aC"
      [] OTHER -> "a?"

PublicIdentity(signing_public_key, encryption_public_key) ==
    [signing_public_key |-> signing_public_key,
     encryption_public_key |-> encryption_public_key,
     address |-> PublicIdentity_generate_address(signing_public_key)]

(***************************************************************************)
(* Packet (transport/packet.py)                                            *)
(*                                                                         *)
(* A payload is [len, first32, second32, text]: its length in bytes and    *)
(* its parts in order: of an announce the two 32-byte keys, of a colony    *)
(* payload the colony id and the encrypted message.  A frame (raw bytes) is*)
(* [header, body, signature]: the 32 header bytes, the bytes after them    *)
(* and the 64 signature bytes when present.                                *)
(***************************************************************************)
NoSignature == [signer |-> None]

Payload(len, first32, second32, text) ==
    [len |-> len, first32 |-> first32, second32 |-> second32, text |-> text]

Packet(packet_type, destination, payload, flags) ==
    [packet_type |-> packet_type, flags |-> flags, ttl |-> DEFAULT_TTL,
     hop_count |-> 0, destination |-> destination, payload |-> payload,
     signature |-> NoSignature]

Packet_is_signed(p) == "SIGNED" \in p.flags

Packet_is_fragmented(p) == "FRAGMENTED" \in p.flags

Packet_serialize_header(p) ==
    [flags |-> p.flags, ttl |-> p.ttl, hop_count |-> p.hop_count,
     packet_type |-> p.packet_type, destination |-> p.destination,
     payload_length |-> p.payload.len,
     payload_hash |-> CryptoBackend_hash_sha256(p.payload)]

Packet_get_signing_data(p) == <<Packet_serialize_header(p), p.payload>>

Packet_sign(p, identity_key) ==
    LET q == [p EXCEPT !.flags = @ \cup {"SIGNED"}]
    IN  [q EXCEPT !.signature = CryptoBackend_sign(identity_key, Packet_get_signing_data(q))]

Packet_verify(p, public_identity) ==
    IF ~Packet_is_signed(p) \/ p.signature = NoSignature
    THEN FALSE
    ELSE CryptoBackend_verify(public_identity.signing_public_key,
                              Packet_get_signing_data(p), p.signature)

\* the parts of the frame and len, the number of its bytes (a frame cut
\* short has the parts of the whole frame and a smaller len)
Packet_to_bytes(p) ==
    [header |-> Packet_serialize_header(p),
     body |-> p.payload,
     signature |-> IF Packet_is_signed(p) /\ p.signature /= NoSignature
                   THEN <<p.signature>> ELSE <<>>,
     len |-> HEADER_SIZE + p.payload.len
                 + (IF Packet_is_signed(p) /\ p.signature /= NoSignature
                    THEN SIGNATURE_SIZE ELSE 0)]

\* returns [ok |-> FALSE] when from_bytes raises, else [ok |-> TRUE, packet |-> p]
Packet_from_bytes(data) ==
    LET payload_end == HEADER_SIZE + data.header.payload_length
    IN  IF data.len < HEADER_SIZE
        THEN [ok |-> FALSE]
        ELSE IF data.len < payload_end
        THEN [ok |-> FALSE]
        \* the bytes sliced are not the body, or not what the header hashed
        ELSE IF data.header.payload_length /= data.body.len
                \/ CryptoBackend_hash_sha256(data.body) /= data.header.payload_hash
        THEN [ok |-> FALSE]
        ELSE IF "SIGNED" \in data.header.flags
                /\ (data.len < payload_end + SIGNATURE_SIZE \/ data.signature = <<>>)
        THEN [ok |-> FALSE]
        ELSE [ok |-> TRUE,
              packet |-> [packet_type |-> data.header.packet_type,
                          flags |-> data.header.flags,
                          ttl |-> data.header.ttl,
                          hop_count |-> data.header.hop_count,
                          destination |-> data.header.destination,
                          payload |-> data.body,
                          signature |-> IF "SIGNED" \in data.header.flags
                                        THEN data.signature[1] ELSE NoSignature]]

(***************************************************************************)
(* Phycore (phycore/base.py, phycore/udp.py)                               *)
(*                                                                         *)
(* A node's state S is the record nodes[n]; S.phy[p] is the phycore named  *)
(* p and S.tx collects what the running operation transmitted.             *)
(***************************************************************************)
QueueKeyLeq(x, y) == x[1] < y[1] \/ (x[1] = y[1] /\ x[2] <= y[2])

\* mutant: the queue is kept in arrival order
PhycoreBase_queue_announce_for_forwarding_Fifo(S, p, packet_bytes, hop_count, t) ==
    [S EXCEPT !.phy[p].announce_queue = Append(@, <<hop_count, t, packet_bytes>>)]

\* list.sort(key=(hop_count, timestamp)), a stable sort, as an insertion sort
RECURSIVE SortQueue(_)
SortQueue(q) ==
    IF Len(q) = 0 THEN q
    ELSE LET front == SortQueue(SubSeq(q, 1, Len(q) - 1))
             x == q[Len(q)]
             k == Cardinality({i \in 1..Len(front) : QueueKeyLeq(front[i], x)})
         IN  SubSeq(front, 1, k) \o <<x>> \o SubSeq(front, k + 1, Len(front))

PhycoreBase_queue_announce_for_forwarding(S, p, packet_bytes, hop_count, t) ==
    [S EXCEPT !.phy[p].announce_queue =
        SortQueue(Append(@, <<hop_count, t, packet_bytes>>))]

\* len(packet_bytes) of a frame
FrameLen(data) == data.len

\* returns [S |-> state afterwards, ret |-> the bool returned]
UDPPhycore_send(S, p, data) ==
    IF ~S.phy[p].online
    THEN [S |-> S, ret |-> FALSE]
    ELSE IF S.phy[p].destinations = {}
    THEN [S |-> S, ret |-> FALSE]
    ELSE [S |-> [S EXCEPT !.tx = Append(@, <<p, data>>)], ret |-> TRUE]

\* the while loop of process_announce_queue: lines 163-178
RECURSIVE AnnounceQueueLoop(_, _, _, _)
AnnounceQueueLoop(S, p, available_bits, current_time) ==
    IF S.phy[p].announce_queue = <<>> \/ available_bits <= 0
    THEN S
    ELSE LET packet_bytes == S.phy[p].announce_queue[1][3]
             packet_bits == FrameLen(packet_bytes) * 8
         IN  IF packet_bits <= available_bits
             THEN LET r == UDPPhycore_send(S, p, packet_bytes)
                      S1 == IF r.ret
                            THEN [r.S EXCEPT !.phy[p].last_announce_time = current_time]
                            ELSE r.S
                      S2 == [S1 EXCEPT !.phy[p].announce_queue = Tail(@)]
                  IN  AnnounceQueueLoop(S2, p,
                          IF r.ret THEN available_bits - packet_bits ELSE available_bits,
                          current_time)
             ELSE S

\* mutant: credit does not accumulate beyond one second
PhycoreBase_process_announce_queue_NoCarry(S, p, t) ==
    IF S.phy[p].announce_queue = <<>>
    THEN S
    ELSE AnnounceQueueLoop(S, p,
             (IF t - S.phy[p].last_announce_time > 1 THEN 1
              ELSE t - S.phy[p].last_announce_time) * S.phy[p].announce_budget_bps, t)

PhycoreBase_process_announce_queue(S, p, t) ==
    IF S.phy[p].announce_queue = <<>>
    THEN S
    ELSE AnnounceQueueLoop(S, p,
             (t - S.phy[p].last_announce_time) * S.phy[p].announce_budget_bps, t)

(***************************************************************************)
(* Node (core/node.py)                                                     *)
(***************************************************************************)
\* returns [S, ret]: the number of phycores of `list` that sent is ret
RECURSIVE SendOnEach(_, _, _)
SendOnEach(S, list, serialized) ==
    IF list = <<>> THEN [S |-> S, ret |-> 0]
    ELSE LET p == Head(list)
             r == IF S.phy[p].online THEN UDPPhycore_send(S, p, serialized)
                  ELSE [S |-> S, ret |-> FALSE]
             rest == SendOnEach(r.S, Tail(list), serialized)
         IN  [S |-> rest.S, ret |-> rest.ret + (IF r.ret THEN 1 ELSE 0)]

\* returns [S, ret]
Node_send_packet(S, packet) ==
    LET r == SendOnEach(S, S.phycores, Packet_to_bytes(packet))
    IN  [S |-> r.S, ret |-> r.ret > 0]

\* returns [S, ret, route]: route is what get_route returned
Node_send_data(S, destination_address, payload, sign, flags, t) ==
    LET unsigned == Packet("DATA", destination_address, payload, flags)
        packet == IF sign THEN Packet_sign(unsigned, S.key) ELSE unsigned
        g == RouteTable_get_route(S.route_table, destination_address, t)
        S1 == [S EXCEPT !.route_table.routes = g.routes]
    IN  IF g.ret /= <<>>
        THEN LET route == g.ret[1]
             IN  IF S1.phy[route.interface].online
                 THEN LET r == UDPPhycore_send(S1, route.interface, Packet_to_bytes(packet))
                      IN  [S |-> r.S, ret |-> r.ret, route |-> g.ret]
                 ELSE [S |-> S1, ret |-> FALSE, route |-> g.ret]
        ELSE LET r == Node_send_packet(S1, packet)
             IN  [S |-> r.S, ret |-> r.ret, route |-> g.ret]

\* returns [S, ret]
Node_announce(S) ==
    LET announce_payload == Payload(ANNOUNCE_PAYLOAD_LEN, S.key, S.key, "")
        packet == Packet_sign(Packet("ANNOUNCE", S.address, announce_payload, {}), S.key)
    IN  Node_send_packet(S, packet)

\* mutant: only unsigned packets are looked up among the cached identities
SourceOf_InvertedSigned(S, packet) ==
    LET ids == S.identity_cache.identities
        hits == {i \in 1..Len(ids) : Packet_verify(packet, ids[i].identity)}
    IN  IF ~Packet_is_signed(packet) /\ hits /= {}
        THEN ids[CHOOSE i \in hits : \A j \in hits : i <= j].key
        ELSE None

\* the address of the first cached identity, in iteration order, that verifies
SourceOf(S, packet) ==
    LET ids == S.identity_cache.identities
        hits == {i \in 1..Len(ids) : Packet_verify(packet, ids[i].identity)}
    IN  IF Packet_is_signed(packet) /\ hits /= {}
        THEN ids[CHOOSE i \in hits : \A j \in hits : i <= j].key
        ELSE None

(***************************************************************************)
(* Group encryption (crypto/encryption.py) and Colony (messaging/group.py) *)
(*                                                                         *)
(* An AEAD ciphertext is the record of the key, nonce and plaintext it was *)
(* made of: it opens under that key and nonce only.  Other bytes are [aead *)
(* |-> FALSE, text].  An encrypted message is [nonce, ciphertext, len].    *)
(***************************************************************************)
ZeroNonce == "000000000000"

CryptoBackend_encrypt_chacha20poly1305(key, nonce, plaintext) ==
    [aead |-> TRUE, key |-> key, nonce |-> nonce, plaintext |-> plaintext,
     len |-> Len(plaintext) + TAG_SIZE]

\* returns [ok, plaintext]: ok is false when InvalidTag is raised
CryptoBackend_decrypt_chacha20poly1305(key, nonce, ciphertext) ==
    IF ciphertext.aead /\ ciphertext.key = key /\ ciphertext.nonce = nonce
    THEN [ok |-> TRUE, plaintext |-> ciphertext.plaintext]
    ELSE [ok |-> FALSE, plaintext |-> None]

RawBytes(text) == [aead |-> FALSE, text |-> text, len |-> Len(text)]

encrypt_group_message(plaintext, group_key, nonce) ==
    LET ciphertext == CryptoBackend_encrypt_chacha20poly1305(group_key, nonce, plaintext)
    IN  [nonce |-> nonce, ciphertext |-> ciphertext, len |-> NONCE_SIZE + ciphertext.len]

\* returns [ok, plaintext]: ok is false when an exception is raised
decrypt_group_message(encrypted, group_key) ==
    IF encrypted.len < NONCE_SIZE
    THEN [ok |-> FALSE, plaintext |-> None]
    ELSE IF encrypted.nonce = ZeroNonce
    THEN [ok |-> TRUE,
          plaintext |-> IF encrypted.ciphertext.aead THEN encrypted.ciphertext
                        ELSE encrypted.ciphertext.text]
    ELSE CryptoBackend_decrypt_chacha20poly1305(group_key, encrypted.nonce,
                                                encrypted.ciphertext)

\* sender_hex[:8] + "..."
ShortName(address) == <<address, "...">>

Colony_add_member(C, address, public_identity, name) ==
    [C EXCEPT !.members = DictSet(@, address, public_identity),
              !.member_names = IF name /= None THEN DictSet(@, address, name) ELSE @]

\* creator_identity is None or the key of the creating node
Colony(name, group_key, creator_identity) ==
    LET C == [key |-> CryptoBackend_hash_sha256(group_key), name |-> name,
              group_key |-> group_key, creator_identity |-> creator_identity,
              members |-> <<>>, member_names |-> <<>>,
              message_callback |-> FALSE, on_message |-> <<>>, sent |-> <<>>,
              manual |-> FALSE]
    IN  IF creator_identity /= None
        THEN Colony_add_member(C, PublicIdentity_generate_address(creator_identity),
                               PublicIdentity(creator_identity, creator_identity),
                               "Creator")
        ELSE C

Colony_get_key_material(C) ==
    [colony_id |-> C.key, group_key |-> C.group_key, name |-> C.name]

Colony_from_key_material(key_material) ==
    Colony(key_material.name, key_material.group_key, None)

\* the payload Colony.send builds
ColonyPayload(colony_id, encrypted) ==
    Payload(COLONY_ID_LEN + encrypted.len, colony_id, encrypted, "")

\* returns the colony afterwards
Colony_handle_message(S, C, encrypted_payload, sender_address) ==
    IF encrypted_payload.len < COLONY_ID_LEN THEN C
    ELSE IF encrypted_payload.first32 /= C.key THEN C
    ELSE LET d == decrypt_group_message(encrypted_payload.second32, C.group_key)
             ids == S.identity_cache.identities
             identity == IF HasKey(ids, sender_address)
                         THEN Lookup(ids, sender_address).identity ELSE None
             C1 == IF sender_address /= None /\ ~HasKey(C.members, sender_address)
                   THEN Colony_add_member(C, sender_address, identity,
                                          ShortName(sender_address))
                   ELSE C
             sender_name == IF HasKey(C1.member_names, sender_address)
                            THEN Lookup(C1.member_names, sender_address).value
                            ELSE IF sender_address /= None THEN ShortName(sender_address)
                            ELSE "unknown"
         IN  IF ~d.ok THEN C
             ELSE IF C1.message_callback
             THEN [C1 EXCEPT !.on_message = Append(@,
                      [sender |-> sender_address, name |-> sender_name,
                       message |-> d.plaintext])]
             ELSE C1

\* the loop of Colony.send over the members; returns [S, ret]
RECURSIVE ColonySendLoop(_, _, _, _, _)
ColonySendLoop(S, members, payload, t, success) ==
    IF members = <<>> THEN [S |-> S, ret |-> success]
    ELSE IF Head(members).key = S.address
    THEN ColonySendLoop(S, Tail(members), payload, t, success)
    ELSE LET r == Node_send_data(S, Head(members).key, payload, TRUE, {}, t)
         IN  ColonySendLoop(r.S, Tail(members), payload, t, success \/ r.ret)

\* returns [S, ret]; nonce is what os.urandom returned
Colony_send(S, C, message, nonce, t) ==
    LET encrypted == encrypt_group_message(message, C.group_key, nonce)
        payload == ColonyPayload(C.key, encrypted)
    IN  ColonySendLoop(S, C.members, payload, t, FALSE)

\* self.colonies[colony.colony_id.hex()] = colony
ColoniesSet(colonies, C) ==
    IF HasKey(colonies, C.key) THEN [colonies EXCEPT ![IndexOf(colonies, C.key)] = C]
    ELSE Append(colonies, C)

\* group_key is what generate_group_key returned
Node_create_colony(S, name, group_key) ==
    [S EXCEPT !.colonies = ColoniesSet(@, Colony(name, group_key, S.key))]

Node_join_colony(S, key_material) ==
    [S EXCEPT !.colonies = ColoniesSet(@, Colony_from_key_material(key_material))]

Node_handle_data_packet(S, packet, p) ==
    LET source_address == SourceOf(S, packet)
    IN  IF Packet_is_fragmented(packet)
        THEN [S EXCEPT !.transfers = Append(@,
                 [payload |-> packet.payload, sender |-> source_address])]
        ELSE IF packet.payload.len >= COLONY_ID_LEN
                /\ HasKey(S.colonies, packet.payload.first32)
        THEN LET i == IndexOf(S.colonies, packet.payload.first32)
             IN  [S EXCEPT !.colony_msgs = Append(@,
                      [payload |-> packet.payload, sender |-> source_address]),
                           !.colonies[i] = Colony_handle_message(S, S.colonies[i],
                                                packet.payload, source_address)]
        ELSE IF S.data_callback
        THEN [S EXCEPT !.on_data = Append(@,
                 [payload |-> packet.payload, source_address |-> source_address,
                  packet |-> packet])]
        ELSE S

\* mutant: every announce is recorded as coming from a direct neighbour
Node_handle_announce_packet_AlwaysDirect(S, packet, p, t) ==
    IF packet.payload.len < ANNOUNCE_PAYLOAD_LEN
    THEN S
    ELSE LET public_identity ==
                 PublicIdentity(packet.payload.first32, packet.payload.second32)
         IN  IF Packet_is_signed(packet) /\ packet.hop_count = 0
                /\ ~Packet_verify(packet, public_identity)
             THEN S
             ELSE IF public_identity.address /= packet.destination
             THEN S
             ELSE LET ids == IdentityCache_add(S.identity_cache, packet.destination,
                                               public_identity, p, t)
                      r == RouteTable_add_or_update(S.route_table, packet.destination,
                                                    None, p, packet.hop_count, t)
                      S1 == [S EXCEPT !.identity_cache.identities = ids,
                                      !.route_table.routes = r.routes]
                  IN  IF S1.announce_callback
                      THEN [S1 EXCEPT !.on_announce = Append(@,
                               [packet |-> packet, public_identity |-> public_identity])]
                      ELSE S1

Node_handle_announce_packet(S, packet, p, t) ==
    IF packet.payload.len < ANNOUNCE_PAYLOAD_LEN
    THEN S
    ELSE LET public_identity ==
                 PublicIdentity(packet.payload.first32, packet.payload.second32)
         IN  IF Packet_is_signed(packet) /\ packet.hop_count = 0
                /\ ~Packet_verify(packet, public_identity)
             THEN S
             ELSE IF public_identity.address /= packet.destination
             THEN S
             ELSE LET next_hop == IF packet.hop_count = 0 THEN None
                                  ELSE packet.destination
                      ids == IdentityCache_add(S.identity_cache, packet.destination,
                                               public_identity, p, t)
                      r == RouteTable_add_or_update(S.route_table, packet.destination,
                                                    next_hop, p, packet.hop_count, t)
                      S1 == [S EXCEPT !.identity_cache.identities = ids,
                                      !.route_table.routes = r.routes]
                  IN  IF S1.announce_callback
                      THEN [S1 EXCEPT !.on_announce = Append(@,
                               [packet |-> packet, public_identity |-> public_identity])]
                      ELSE S1

\* mutant: the announce is also queued on the phycore it arrived on
RECURSIVE QueueOnEach_EchoesBack(_, _, _, _, _, _)
QueueOnEach_EchoesBack(S, list, received_from, serialized, hop_count, t) ==
    IF list = <<>> THEN S
    ELSE LET p == Head(list)
             skip == \/ ~S.phy[p].online
                     \/ S.phy[p].mode = "ACCESS_POINT"
                     \/ (S.phy[p].mode = "BOUNDARY" /\ hop_count > BOUNDARY_MAX_HOPS)
             S1 == IF skip THEN S
                   ELSE PhycoreBase_queue_announce_for_forwarding(
                            S, p, serialized, hop_count, t)
         IN  QueueOnEach_EchoesBack(S1, Tail(list), received_from, serialized, hop_count, t)

RECURSIVE QueueOnEach(_, _, _, _, _, _)
QueueOnEach(S, list, received_from, serialized, hop_count, t) ==
    IF list = <<>> THEN S
    ELSE LET p == Head(list)
             skip == \/ p = received_from
                     \/ ~S.phy[p].online
                     \/ S.phy[p].mode = "ACCESS_POINT"
                     \/ (S.phy[p].mode = "BOUNDARY" /\ hop_count > BOUNDARY_MAX_HOPS)
             S1 == IF skip THEN S
                   ELSE PhycoreBase_queue_announce_for_forwarding(
                            S, p, serialized, hop_count, t)
         IN  QueueOnEach(S1, Tail(list), received_from, serialized, hop_count, t)

\* mutant: the hop limit is not checked after the increment
Node_forward_announce_NoLimit(S, packet, received_from, t) ==
    LET fwd == [packet EXCEPT !.hop_count = @ + 1]
    IN  QueueOnEach(S, S.phycores, received_from, Packet_to_bytes(fwd),
                    fwd.hop_count, t)

Node_forward_announce(S, packet, received_from, t) ==
    LET fwd == [packet EXCEPT !.hop_count = @ + 1]
    IN  IF fwd.hop_count >= S.max_hops
        THEN S
        ELSE QueueOnEach(S, S.phycores, received_from, Packet_to_bytes(fwd),
                         fwd.hop_count, t)

\* mutant: a DATA packet without a route is flooded on every phycore
Node_forward_packet_Floods(S, packet, received_from, t) ==
    LET fwd == [packet EXCEPT !.hop_count = @ + 1]
    IN  IF fwd.hop_count >= S.max_hops
        THEN S
        ELSE LET g == RouteTable_get_route(S.route_table, fwd.destination, t)
                 S1 == [S EXCEPT !.route_table.routes = g.routes]
             IN  IF g.ret /= <<>> /\ S1.phy[g.ret[1].interface].online
                 THEN UDPPhycore_send(S1, g.ret[1].interface, Packet_to_bytes(fwd)).S
                 ELSE IF g.ret = <<>> THEN Node_send_packet(S1, fwd).S
                 ELSE S1

Node_forward_packet(S, packet, received_from, t) ==
    LET fwd == [packet EXCEPT !.hop_count = @ + 1]
    IN  IF fwd.hop_count >= S.max_hops
        THEN S
        ELSE LET g == RouteTable_get_route(S.route_table, fwd.destination, t)
                 S1 == [S EXCEPT !.route_table.routes = g.routes]
             IN  IF g.ret /= <<>> /\ S1.phy[g.ret[1].interface].online
                 THEN UDPPhycore_send(S1, g.ret[1].interface, Packet_to_bytes(fwd)).S
                 ELSE S1

\* seen_packets after the add and the half-purge; `dropped` is the part of the
\* set that list(set)[:max // 2] holds, which depends on the set's hash order
SeenAfterAdd(S, data, dropped) ==
    LET added == S.seen_packets \cup {data}
    IN  IF Cardinality(added) > S.max_seen_packets THEN added \ dropped ELSE added

\* what list(set)[:max // 2] can be when data is added
PurgeChoices(S, data) ==
    LET added == S.seen_packets \cup {data}
    IN  IF Cardinality(added) > S.max_seen_packets
        THEN {D \in SUBSET added : Cardinality(D) = S.max_seen_packets \div 2}
        ELSE {{}}

\* the dispatch after the dedupe: lines 330-351
Node_dispatch(S, packet, p, t) ==
    IF packet.packet_type = "ANNOUNCE"
    THEN LET S1 == Node_handle_announce_packet(S, packet, p, t)
         IN  IF S1.enable_forwarding /\ packet.hop_count < S1.max_hops
             THEN Node_forward_announce(S1, packet, p, t)
             ELSE S1
    ELSE IF packet.destination /= S.address
    THEN IF S.enable_forwarding /\ packet.hop_count < S.max_hops
         THEN Node_forward_packet(S, packet, p, t)
         ELSE S
    ELSE IF packet.packet_type = "DATA"
    THEN Node_handle_data_packet(S, packet, p)
    ELSE S

\* mutant: the frame is recorded in the dedupe set before it is parsed
Node_on_packet_received_RecordsFirst(S, data, p, t, dropped) ==
    LET d == Packet_from_bytes(data)
        S1 == [S EXCEPT !.seen_packets = SeenAfterAdd(S, data, dropped)]
    IN  IF ~d.ok THEN S1
        ELSE IF data \in S.seen_packets THEN S
        ELSE Node_dispatch(S1, d.packet, p, t)

Node_on_packet_received(S, data, p, t, dropped) ==
    LET d == Packet_from_bytes(data)
    IN  IF ~d.ok THEN S
        ELSE IF data \in S.seen_packets THEN S
        ELSE Node_dispatch([S EXCEPT !.seen_packets = SeenAfterAdd(S, data, dropped)],
                           d.packet, p, t)

(***************************************************************************)
(* The system: nodes, their phycores and the frames in flight              *)
(***************************************************************************)
NodeNames == {"alice", "bob", "charlie"}
ThreadNames == {"rx1", "rx2", "user"}
World == <<"world", "t1">>      \* a peer outside the model

TextPayload(text) == Payload(2, text, "", "")

\* a started node: phycores online, callbacks registered
NewNode(key, phycores, destinations, modes, max_seen, max_entries, max_routes, timeout) ==
    [address |-> PublicIdentity_generate_address(key),
     key |-> key,
     phycores |-> phycores,
     phy |-> [p \in Interfaces |->
                [online |-> \E i \in 1..Len(phycores) : phycores[i] = p,
                 mode |-> modes[p],
                 destinations |-> destinations[p],
                 announce_budget_bps |-> DEFAULT_ANNOUNCE_BUDGET,
                 last_announce_time |-> 0 - StartTime,
                 announce_queue |-> <<>>]],
     identity_cache |-> [identities |-> <<>>, max_entries |-> max_entries],
     route_table |-> [routes |-> <<>>, max_routes |-> max_routes,
                      route_timeout |-> timeout],
     enable_forwarding |-> TRUE,
     max_hops |-> MAX_HOPS,
     data_callback |-> TRUE,
     announce_callback |-> TRUE,
     seen_packets |-> {},
     max_seen_packets |-> max_seen,
     colonies |-> <<>>,
     on_data |-> <<>>,
     on_announce |-> <<>>,
     transfers |-> <<>>,
     colony_msgs |-> <<>>,
     sent |-> <<>>,
     received |-> <<>>,
     emitted |-> <<>>,
     transfer_manager |-> [transfers |-> <<>>, max_concurrent |-> NODE_MAX_CONCURRENT],
     files |-> <<>>,
     frag_log |-> <<>>,
     auto_announce |-> FALSE,
     announce_timer |-> None,
     tx |-> <<>>]

AllFull == [p \in Interfaces |-> "FULL"]

\* a node with two phycores, both linked to peers outside the model
Standalone(key, max_seen, max_entries, max_routes, timeout) ==
    NewNode(key, <<"t1", "t2">>, [p \in Interfaces |-> {World}], AllFull,
            max_seen, max_entries, max_routes, timeout)

\* a constructed node to which no phycore was added
Unplugged(key) ==
    NewNode(key, <<>>, [p \in Interfaces |-> {}], AllFull,
            MAX_SEEN_PACKETS, MAX_CACHE_ENTRIES, MAX_CACHE_ENTRIES, ROUTE_TIMEOUT)

\* a node with one phycore t1 linked to phycore t1 of `peer`
Linked(key, peer) ==
    NewNode(key, <<"t1">>, [p \in Interfaces |-> IF p = "t1" THEN {<<peer, "t1">>} ELSE {}],
            AllFull, MAX_SEEN_PACKETS, MAX_CACHE_ENTRIES, MAX_CACHE_ENTRIES, ROUTE_TIMEOUT)

EmptyInbox == [n \in NodeNames |-> [p \in Interfaces |-> <<>>]]
IdleThreads == [t \in ThreadNames |-> [pc |-> "idle"]]
NoOp == [op |-> "init", n |-> 0]

\* the frames of S.tx that reach phycore q of node m, in transmission order
RECURSIVE FramesFor(_, _, _, _)
FramesFor(S, tx, m, q) ==
    IF tx = <<>> THEN <<>>
    ELSE (IF <<m, q>> \in S.phy[Head(tx)[1]].destinations THEN <<Head(tx)[2]>> ELSE <<>>)
         \o FramesFor(S, Tail(tx), m, q)

Flush(ib, S) ==
    [m \in NodeNames |-> [q \in Interfaces |-> ib[m][q] \o FramesFor(S, S.tx, m, q)]]

\* node n ends an operation in state S: its transmissions go on the wire
Finish(n, S, ib, rec) ==
    /\ nodes' = [nodes EXCEPT ![n] = [S EXCEPT !.tx = <<>>]]
    /\ inbox' = Flush(ib, S)
    /\ last' = rec

\* the announce the node holding key k transmits (Node.announce)
AnnouncePacket(k) ==
    Packet_sign(Packet("ANNOUNCE", PublicIdentity_generate_address(k),
                       Payload(ANNOUNCE_PAYLOAD_LEN, k, k, ""), {}), k)

\* node n has not announced yet: nobody holds its announce
NotAnnounced(n) ==
    \A m \in NodeNames : \A p \in Interfaces :
        /\ Packet_to_bytes(AnnouncePacket(nodes[n].key)) \notin nodes[m].seen_packets
        /\ \A k \in 1..Len(inbox[m][p]) :
              inbox[m][p][k] /= Packet_to_bytes(AnnouncePacket(nodes[n].key))

\* every node announced, nothing is in flight and every announce queue
\* has been serviced
Settled ==
    /\ \A n \in NodeNames : ~NotAnnounced(n)
    /\ \A n \in NodeNames : \A p \in Interfaces :
          inbox[n][p] = <<>> /\ nodes[n].phy[p].announce_queue = <<>>

(***************************************************************************)
(* Actions                                                                 *)
(***************************************************************************)
Tick ==
    /\ now < MaxClock
    /\ now' = now + 1
    /\ UNCHANGED <<nodes, inbox, threads, last>>

\* a direct call of route_table.add_or_update on node n
AddOrUpdate(n, d, nh, i, h, bound) ==
    /\ last.n < bound
    /\ LET r == RouteTable_add_or_update(nodes[n].route_table, d, nh, i, h, now)
       IN  Finish(n, [nodes[n] EXCEPT !.route_table.routes = r.routes], inbox,
                  [op |-> "add_or_update", n |-> last.n + 1, node |-> n, dest |-> d,
                   next_hop |-> nh, interface |-> i, hop_count |-> h,
                   ret |-> r.ret, pre |-> nodes[n], at |-> now])
    /\ UNCHANGED <<threads, now>>

\* a direct call of route_table.get_route on node n
GetRoute(n, d, bound) ==
    /\ last.n < bound
    /\ LET r == RouteTable_get_route(nodes[n].route_table, d, now)
       IN  Finish(n, [nodes[n] EXCEPT !.route_table.routes = r.routes], inbox,
                  [op |-> "get_route", n |-> last.n + 1, node |-> n, dest |-> d,
                   ret |-> r.ret, pre |-> nodes[n], at |-> now])
    /\ UNCHANGED <<threads, now>>

\* a direct call of identity_cache.add on node n
CacheAdd(n, k, i, bound) ==
    /\ last.n < bound
    /\ LET public_identity == PublicIdentity(k, k)
           ids == IdentityCache_add(nodes[n].identity_cache, public_identity.address,
                                    public_identity, i, now)
       IN  Finish(n, [nodes[n] EXCEPT !.identity_cache.identities = ids], inbox,
                  [op |-> "cache_add", n |-> last.n + 1, node |-> n,
                   dest |-> public_identity.address,
                   interface |-> i, pre |-> nodes[n], at |-> now])
    /\ UNCHANGED <<threads, now>>

\* phycore p of node n receives frame `data` from outside the model and
\* dispatches it (PhycoreBase._on_receive -> Node._on_packet_received)
RxFrame(n, p, data, bound) ==
    /\ last.n < bound
    /\ \E dropped \in PurgeChoices(nodes[n], data) :
          LET S == Node_on_packet_received(nodes[n], data, p, now, dropped)
          IN  Finish(n, [S EXCEPT !.received = Append(@, data)], inbox,
                     [op |-> "rx", n |-> last.n + 1, node |-> n, phy |-> p, data |-> data,
                      tx |-> S.tx, pre |-> nodes[n], at |-> now])
    /\ UNCHANGED <<threads, now>>

\* phycore p of node n receives the next frame in flight to it
Deliver(n, p) ==
    /\ inbox[n][p] /= <<>>
    /\ LET data == Head(inbox[n][p])
       IN  \E dropped \in PurgeChoices(nodes[n], data) :
              LET S == Node_on_packet_received(nodes[n], data, p, now, dropped)
              IN  Finish(n, [S EXCEPT !.received = Append(@, data)],
                         [inbox EXCEPT ![n][p] = Tail(@)],
                         [op |-> "rx", n |-> last.n, node |-> n, phy |-> p, data |-> data,
                          tx |-> S.tx, pre |-> nodes[n], at |-> now])
    /\ UNCHANGED <<threads, now>>

\* the host services the announce queue of phycore p of node n
Service(n, p) ==
    /\ nodes[n].phy[p].announce_queue /= <<>>
    /\ LET S0 == PhycoreBase_process_announce_queue(nodes[n], p, now)
           S == [S0 EXCEPT !.emitted = @ \o [k \in 1..Len(S0.tx) |-> <<p, now, S0.tx[k][2]>>]]
       IN  Finish(n, S, inbox,
                  [op |-> "service", n |-> last.n, node |-> n, phy |-> p,
                   tx |-> S.tx, pre |-> nodes[n], at |-> now])
    /\ UNCHANGED <<threads, now>>

UDPPhycore_stop(S, p) ==
    IF ~S.phy[p].online THEN S ELSE [S EXCEPT !.phy[p].online = FALSE]

Node_stop_announcing(S) ==
    [S EXCEPT !.auto_announce = FALSE, !.announce_timer = None]

\* the loop of Node.stop over the phycores
RECURSIVE StopEach(_, _)
StopEach(S, phycores) ==
    IF phycores = <<>> THEN S
    ELSE StopEach(UDPPhycore_stop(S, Head(phycores)), Tail(phycores))

Node_stop(S) == StopEach(Node_stop_announcing(S), S.phycores)

\* what the Timer of start_announcing runs; returns [S, ret]
Node_schedule_next(S) ==
    IF S.auto_announce
    THEN LET r == Node_announce(S)
         IN  [S |-> [r.S EXCEPT !.announce_timer = "armed"], ret |-> r.ret]
    ELSE [S |-> [S EXCEPT !.announce_timer = None], ret |-> FALSE]

\* phycore p of node n is stopped (UDPPhycore.stop)
StopPhycore(n, p) ==
    /\ nodes[n].phy[p].online
    /\ nodes' = [nodes EXCEPT ![n].phy[p].online = FALSE]
    /\ UNCHANGED <<inbox, threads, now, last>>

\* the user of node n calls send_data
SendData(n, dest, payload, sign, bound) ==
    /\ last.n < bound
    /\ LET r == Node_send_data(nodes[n], dest, payload, sign, {}, now)
           call == [destination |-> dest, payload |-> payload, sign |-> sign,
                    ret |-> r.ret,
                    known |-> \A m \in NodeNames : nodes[m].address = dest =>
                        HasKey(nodes[m].identity_cache.identities, nodes[n].address),
                    settled |-> Settled]
       IN  Finish(n, [r.S EXCEPT !.sent = Append(@, call)], inbox,
                  [op |-> "send_data", n |-> last.n + 1, node |-> n, dest |-> dest,
                   payload |-> payload, sign |-> sign, ret |-> r.ret, route |-> r.route,
                   tx |-> r.S.tx, pre |-> nodes[n], at |-> now])
    /\ UNCHANGED <<threads, now>>

\* the user of node n calls announce
Announce(n, bound) ==
    /\ last.n < bound
    /\ LET r == Node_announce(nodes[n])
       IN  Finish(n, r.S, inbox,
                  [op |-> "announce", n |-> last.n + 1, node |-> n, ret |-> r.ret,
                   pre |-> nodes[n], at |-> now])
    /\ UNCHANGED <<threads, now>>

(***************************************************************************)
(* SpecRT: the RouteTable of one node under any sequence of method calls   *)
(***************************************************************************)
\* the state after both nodes were constructed and started
InitOf(alice, bob) ==
    /\ nodes = [n \in NodeNames |-> IF n = "alice" THEN alice
                                    ELSE IF n = "bob" THEN bob ELSE Unplugged("kC")]
    /\ inbox = EmptyInbox
    /\ threads = IdleThreads
    /\ now = 0
    /\ last = NoOp

InitRT ==
    InitOf(Standalone("kA", MAX_SEEN_PACKETS, RouteCap, RouteCap, SmallTimeout),
           Standalone("kB", MAX_SEEN_PACKETS, RouteCap, RouteCap, SmallTimeout))

\* the (next_hop, interface) pairs routes are offered with
RouteOffers == {<<None, "t1">>, <<None, "t2">>, <<"aA", "t2">>}

NextRT ==
    \/ Tick
    \/ \E d \in Addresses, via \in RouteOffers, h \in HopValues :
          AddOrUpdate("bob", d, via[1], via[2], h, MaxOps)
    \/ \E d \in Addresses : GetRoute("bob", d, MaxOps)

SpecRT == InitRT /\ [][NextRT]_vars

(***************************************************************************)
(* Claims about the route table                                            *)
(***************************************************************************)
PreRoutes == last.pre.route_table.routes
PostRoutes == nodes[last.node].route_table.routes

C6_RouteMonotonicity ==
    last.op = "add_or_update" =>
        \A d \in Addresses :
            (HasKey(PreRoutes, d) /\ HasKey(PostRoutes, d)) =>
                Lookup(PostRoutes, d).hop_count <= Lookup(PreRoutes, d).hop_count

\* a strictly worse route was offered for a destination that has an entry
C6_Witness ==
    /\ last.op = "add_or_update"
    /\ HasKey(PreRoutes, last.dest)
    /\ last.hop_count > Lookup(PreRoutes, last.dest).hop_count
    /\ HasKey(PostRoutes, last.dest)

(***************************************************************************)
(* SpecCap: the IdentityCache and the RouteTable of one node at capacity   *)
(***************************************************************************)
NextCap ==
    \/ Tick
    \/ \E k \in Keys : CacheAdd("bob", k, "t1", CapOps)
    \/ \E d \in Addresses, h \in HopValues : AddOrUpdate("bob", d, None, "t1", h, CapOps)

SpecCap == InitRT /\ [][NextCap]_vars

PreIdentities == last.pre.identity_cache.identities
PostIdentities == nodes[last.node].identity_cache.identities

\* what an insertion or update of key k may do to the keys of a table of
\* capacity cap: a present key changes no key; an absent key joins, and
\* when the table was full exactly one entry of oldest timestamp leaves
CapacityStep(pre, post, k, cap) ==
    IF k \in KeysOf(pre)
    THEN KeysOf(post) = KeysOf(pre) /\ Len(post) = Len(pre)
    ELSE IF Len(pre) < cap
    THEN KeysOf(post) = KeysOf(pre) \cup {k} /\ Len(post) = Len(pre) + 1
    ELSE /\ Len(post) = cap
         /\ k \in KeysOf(post)
         /\ \E v \in 1..Len(pre) :
               /\ \A j \in 1..Len(pre) : pre[v].timestamp <= pre[j].timestamp
               /\ KeysOf(post) = (KeysOf(pre) \ {pre[v].key}) \cup {k}

\* C8: both tables never exceed their capacity; adding an absent key to a
\* full table evicts exactly one entry, one with the oldest timestamp, and
\* the new key is present afterwards; updating a present key never evicts.
C8_CapacityWithLruEviction ==
    /\ \A n \in NodeNames :
          /\ Len(nodes[n].identity_cache.identities) <= nodes[n].identity_cache.max_entries
          /\ Len(nodes[n].route_table.routes) <= nodes[n].route_table.max_routes
    /\ last.op = "cache_add" =>
          CapacityStep(PreIdentities, PostIdentities, last.dest,
                       last.pre.identity_cache.max_entries)
    /\ last.op = "add_or_update" =>
          IF last.ret
          THEN CapacityStep(PreRoutes, PostRoutes, last.dest,
                            last.pre.route_table.max_routes)
          ELSE PostRoutes = PreRoutes

\* a full cache took an absent key and dropped its older entry, which was
\* not the first one inserted into the dict
C8_Witness ==
    /\ last.op = "cache_add"
    /\ Len(PreIdentities) = last.pre.identity_cache.max_entries
    /\ ~HasKey(PreIdentities, last.dest)
    /\ PreIdentities[1].timestamp > PreIdentities[2].timestamp
    /\ ~HasKey(PostIdentities, PreIdentities[2].key)
    /\ HasKey(PostIdentities, PreIdentities[1].key)
    /\ HasKey(PostIdentities, last.dest)

(***************************************************************************)
(* Frames that arrive from peers outside the model                         *)
(***************************************************************************)
\* a packet after forwarders raised its hop count to h without signing again
Forwarded(packet, h) == [packet EXCEPT !.hop_count = h]

\* an unsigned DATA packet for destination d
PlainData(d, text) == Packet("DATA", d, TextPayload(text), {})

(***************************************************************************)
(* SpecExpiry: one node whose routes age, looked up by get_route,          *)
(* send_data and DATA forwarding                                           *)
(***************************************************************************)
ExpiryFrames ==
    {Packet_to_bytes(AnnouncePacket("kA")),
     Packet_to_bytes(Forwarded(AnnouncePacket("kC"), 1)),
     Packet_to_bytes(PlainData("aA", "hi")),
     Packet_to_bytes(PlainData("aC", "hi"))}

NextExpiry ==
    \/ Tick
    \/ \E p \in Interfaces, data \in ExpiryFrames : RxFrame("bob", p, data, ExpOps)
    \/ \E d \in {"aA", "aC"} : SendData("bob", d, TextPayload("yo"), FALSE, ExpOps)
    \/ \E d \in {"aA", "aC"} : GetRoute("bob", d, ExpOps)

SpecExpiry == InitRT /\ [][NextExpiry]_vars

\* the contract of one lookup of d at time t: pre and post are the routes
\* before and after, ret is what the lookup returned
LookupContract(pre, post, d, t, timeout, ret) ==
    IF ~HasKey(pre, d)
    THEN ret = <<>> /\ post = pre
    ELSE LET e == Lookup(pre, d)
         IN  IF t - e.timestamp <= timeout
             THEN ret = <<e>> /\ post = pre
             ELSE ret = <<>> /\ post = RemoveAt(pre, IndexOf(pre, d))

\* the last operation was the dispatch of a new DATA frame for another node
ForwardedData ==
    /\ last.op = "rx"
    /\ Packet_from_bytes(last.data).ok
    /\ last.data \notin last.pre.seen_packets
    /\ Packet_from_bytes(last.data).packet.packet_type = "DATA"
    /\ Packet_from_bytes(last.data).packet.destination /= last.pre.address

\* C7: get_route returns the entry unchanged while its age is at most
\* route_timeout, and removes it and returns None once the age is greater;
\* send_data and DATA forwarding transmit on a route only when that lookup
\* returned it, so never on an expired one.
C7_RouteExpiry ==
    /\ last.op = "get_route" =>
          LookupContract(PreRoutes, PostRoutes, last.dest, last.at,
                         last.pre.route_table.route_timeout, last.ret)
    /\ last.op = "send_data" =>
          /\ LookupContract(PreRoutes, PostRoutes, last.dest, last.at,
                            last.pre.route_table.route_timeout, last.route)
          /\ last.route /= <<>> => \A i \in 1..Len(last.tx) :
                                       last.tx[i][1] = last.route[1].interface
          /\ last.route = <<>> =>
                last.tx = [i \in 1..Len(last.pre.phycores) |->
                              <<last.pre.phycores[i], last.tx[1][2]>>]
    /\ ForwardedData =>
          LET dest == Packet_from_bytes(last.data).packet.destination
              e == Lookup(PreRoutes, dest)
          IN  IF HasKey(PreRoutes, dest)
                 /\ last.at - e.timestamp <= last.pre.route_table.route_timeout
              THEN /\ PostRoutes = PreRoutes
                   /\ Len(last.tx) = 1 /\ last.tx[1][1] = e.interface
              ELSE /\ ~HasKey(PostRoutes, dest)
                   /\ last.tx = <<>>

\* a DATA frame for a destination whose route had expired was dispatched
C7_Witness ==
    /\ ForwardedData
    /\ HasKey(PreRoutes, Packet_from_bytes(last.data).packet.destination)
    /\ last.at - Lookup(PreRoutes, Packet_from_bytes(last.data).packet.destination).timestamp
          > last.pre.route_table.route_timeout
    /\ last.tx = <<>>

(***************************************************************************)
(* SpecDedupe: one node with a small dedupe set receives frames one at a   *)
(* time                                                                    *)
(***************************************************************************)
DedupeFrames ==
    {Packet_to_bytes(PlainData("aB", "f1")),
     Packet_to_bytes(PlainData("aB", "f2")),
     Packet_to_bytes(PlainData("aB", "f3")),
     Packet_to_bytes(Packet_sign(PlainData("aB", "f4"), "kA"))}

InitDedupe ==
    InitOf(Standalone("kA", SeenCap, MAX_CACHE_ENTRIES, MAX_CACHE_ENTRIES, ROUTE_TIMEOUT),
           Standalone("kB", SeenCap, MAX_CACHE_ENTRIES, MAX_CACHE_ENTRIES, ROUTE_TIMEOUT))

NextDedupe ==
    \E p \in Interfaces, data \in DedupeFrames : RxFrame("bob", p, data, DedupeOps)

SpecDedupe == InitDedupe /\ [][NextDedupe]_vars

\* frame F decodes to a DATA packet that node S hands to on_data
IsOwnData(S, F) ==
    /\ Packet_from_bytes(F).ok
    /\ Packet_from_bytes(F).packet.packet_type = "DATA"
    /\ Packet_from_bytes(F).packet.destination = S.address
    /\ ~Packet_is_fragmented(Packet_from_bytes(F).packet)
    /\ ~HasKey(S.colonies, Packet_from_bytes(F).packet.payload.first32)

\* how often node S called on_data for frame F
Callbacks(S, F) ==
    Cardinality({k \in 1..Len(S.on_data) :
                    S.on_data[k].packet = Packet_from_bytes(F).packet})

\* the distinct frames other than F that S received between its i-th and j-th
OthersBetween(S, i, j) ==
    {S.received[k] : k \in (i + 1)..(j - 1)} \ {S.received[i]}

\* C2: when the same raw DATA frame for this node is delivered exactly
\* twice, with fewer than max_seen_packets other distinct frames dispatched in
\* between, on_data is called exactly once for it.
C2_SequentialDedupe ==
    \A n \in NodeNames : \A i, j \in 1..Len(nodes[n].received) :
        (/\ i < j
         /\ nodes[n].received[i] = nodes[n].received[j]
         /\ \A k \in 1..Len(nodes[n].received) :
               nodes[n].received[k] = nodes[n].received[i] => k \in {i, j}
         /\ IsOwnData(nodes[n], nodes[n].received[i])
         /\ Cardinality(OthersBetween(nodes[n], i, j)) < nodes[n].max_seen_packets)
        => Callbacks(nodes[n], nodes[n].received[i]) = 1

\* a frame delivered twice in a row was handed to on_data once
C2_Witness ==
    /\ Len(nodes["bob"].received) >= 2
    /\ nodes["bob"].received[1] = nodes["bob"].received[2]
    /\ IsOwnData(nodes["bob"], nodes["bob"].received[1])
    /\ Callbacks(nodes["bob"], nodes["bob"].received[1]) = 1

(***************************************************************************)
(* SpecAnn: one node with two phycores receives announces, valid and not   *)
(***************************************************************************)
\* an ANNOUNCE for destination d carrying key k, without a signature
UnsignedAnnounce(d, k) ==
    Packet("ANNOUNCE", d, Payload(ANNOUNCE_PAYLOAD_LEN, k, k, ""), {})

AnnouncePackets ==
    {AnnouncePacket("kA"),                               \* as its owner sent it
     Forwarded(AnnouncePacket("kA"), 1),                 \* after one forwarder
     UnsignedAnnounce("aC", "kC"),                       \* no signature at all
     Packet_sign(UnsignedAnnounce("aC", "kC"), "kA"),    \* signed by another key
     Forwarded(Packet_sign(UnsignedAnnounce("aC", "kC"), "kA"), 1),
     Packet_sign(UnsignedAnnounce("aC", "kA"), "kA"),    \* address of another key
     Packet_sign(Packet("ANNOUNCE", "aA", Payload(32, "kA", "", ""), {}), "kA")}

AnnFrames == {Packet_to_bytes(packet) : packet \in AnnouncePackets}

NextAnn ==
    \/ Tick
    \/ \E p \in Interfaces, data \in AnnFrames : RxFrame("bob", p, data, AnnOps)

InitAnn ==
    InitOf(Standalone("kA", MAX_SEEN_PACKETS, MAX_CACHE_ENTRIES, MAX_CACHE_ENTRIES,
                      ROUTE_TIMEOUT),
           Standalone("kB", MAX_SEEN_PACKETS, MAX_CACHE_ENTRIES, MAX_CACHE_ENTRIES,
                      ROUTE_TIMEOUT))

SpecAnn == InitAnn /\ [][NextAnn]_vars

\* the three conditions under which an announce may be taken
ValidAnnounce(packet) ==
    /\ packet.payload.len >= ANNOUNCE_PAYLOAD_LEN
    /\ Packet_verify(packet, PublicIdentity(packet.payload.first32,
                                            packet.payload.second32))
    /\ packet.destination =
          PublicIdentity_generate_address(packet.payload.first32)

\* the last operation was the dispatch of a new ANNOUNCE frame
DispatchedAnnounce ==
    /\ last.op = "rx"
    /\ Packet_from_bytes(last.data).ok
    /\ last.data \notin last.pre.seen_packets
    /\ Packet_from_bytes(last.data).packet.packet_type = "ANNOUNCE"

\* C9: a received ANNOUNCE, whatever its hop count and flags, changes the
\* identity cache or the route table only if its payload has at least 64
\* bytes, its signature verifies against the signing key in the payload and
\* its destination is the address derived from that key.
C9_AnnounceAcceptedOnlyIfValid ==
    (/\ DispatchedAnnounce
     /\ \/ PostIdentities /= PreIdentities
        \/ PostRoutes /= PreRoutes)
    => ValidAnnounce(Packet_from_bytes(last.data).packet)

\* a signed announce at hop 0 whose signature does not verify was refused
C9_Witness ==
    /\ DispatchedAnnounce
    /\ Packet_from_bytes(last.data).packet.hop_count = 0
    /\ Packet_is_signed(Packet_from_bytes(last.data).packet)
    /\ Packet_from_bytes(last.data).packet.payload.len >= ANNOUNCE_PAYLOAD_LEN
    /\ ~ValidAnnounce(Packet_from_bytes(last.data).packet)
    /\ PostIdentities = PreIdentities
    /\ PostRoutes = PreRoutes

\* C10: an ANNOUNCE that fails validation is dropped silently: identity
\* cache and route table unchanged, on_announce not called, and nothing
\* enqueued for forwarding on any transport.
C10_InvalidAnnounceDropped ==
    (DispatchedAnnounce /\ ~ValidAnnounce(Packet_from_bytes(last.data).packet))
    => /\ PostIdentities = PreIdentities
       /\ PostRoutes = PreRoutes
       /\ nodes[last.node].on_announce = last.pre.on_announce
       /\ \A p \in Interfaces :
             nodes[last.node].phy[p].announce_queue = last.pre.phy[p].announce_queue

\* an invalid announce left both tables and the callback log untouched
C10_Witness ==
    /\ DispatchedAnnounce
    /\ ~ValidAnnounce(Packet_from_bytes(last.data).packet)
    /\ PostIdentities = PreIdentities
    /\ PostRoutes = PreRoutes
    /\ nodes[last.node].on_announce = last.pre.on_announce

(***************************************************************************)
(* SpecConc: the threads of one CPython host.  Each UDPPhycore runs its    *)
(* own listen thread (udp.py 107-110) that calls Node._on_packet_received  *)
(* through _on_receive; the user's thread calls send_data.  The node       *)
(* takes no lock anywhere, so a thread advances whenever it is scheduled.  *)
(* A thread's position is the statement it executes next.                  *)
(***************************************************************************)
PhyOf(t) == IF t = "rx1" THEN "t1" ELSE "t2"

ConcFrames ==
    {Packet_to_bytes(AnnouncePacket("kA")),
     Packet_to_bytes(Packet_sign(PlainData("aB", "hi"), "kA"))}

\* _listen_loop: recvfrom, _on_receive, then line 316, Packet.from_bytes
RxRecv(n, t, data, bound) ==
    /\ threads[t].pc = "idle"
    /\ last.n < bound
    /\ threads' = [threads EXCEPT ![t] =
          IF Packet_from_bytes(data).ok
          THEN [pc |-> "check", data |-> data,
                packet |-> Packet_from_bytes(data).packet, p |-> PhyOf(t)]
          ELSE [pc |-> "idle"]]
    /\ nodes' = [nodes EXCEPT ![n].received = Append(@, data)]
    /\ last' = [op |-> "recv", n |-> last.n + 1]
    /\ UNCHANGED <<inbox, now>>

\* lines 319-321: if packet_hash in self.seen_packets: return
RxCheck(n, t) ==
    /\ threads[t].pc = "check"
    /\ threads' = [threads EXCEPT ![t] =
          IF threads[t].data \in nodes[n].seen_packets
          THEN [pc |-> "idle"] ELSE [@ EXCEPT !.pc = "add"]]
    /\ UNCHANGED <<nodes, inbox, now, last>>

\* line 324: self.seen_packets.add(packet_hash)
RxAdd(n, t) ==
    /\ threads[t].pc = "add"
    /\ nodes' = [nodes EXCEPT ![n].seen_packets = @ \cup {threads[t].data}]
    /\ threads' = [threads EXCEPT ![t].pc = "purge"]
    /\ UNCHANGED <<inbox, now, last>>

\* lines 325-328: the half-purge
RxPurge(n, t) ==
    /\ threads[t].pc = "purge"
    /\ IF Cardinality(nodes[n].seen_packets) > nodes[n].max_seen_packets
       THEN \E dropped \in SUBSET nodes[n].seen_packets :
               /\ Cardinality(dropped) = nodes[n].max_seen_packets \div 2
               /\ nodes' = [nodes EXCEPT ![n].seen_packets = @ \ dropped]
       ELSE UNCHANGED nodes
    /\ threads' = [threads EXCEPT ![t].pc = "dispatch"]
    /\ UNCHANGED <<inbox, now, last>>

\* lines 330-351: the handlers
RxDispatch(n, t) ==
    /\ threads[t].pc = "dispatch"
    /\ Finish(n, Node_dispatch(nodes[n], threads[t].packet, threads[t].p, now),
              inbox, last)
    /\ threads' = [threads EXCEPT ![t] = [pc |-> "idle"]]
    /\ UNCHANGED now

\* send_data lines 159-169: build the packet and sign it
UserSend(n, dest, payload, sign, bound) ==
    /\ threads["user"].pc = "idle"
    /\ last.n < bound
    /\ threads' = [threads EXCEPT !["user"] =
          [pc |-> "lookup", dest |-> dest,
           packet |-> IF sign THEN Packet_sign(Packet("DATA", dest, payload, {}),
                                               nodes[n].key)
                      ELSE Packet("DATA", dest, payload, {})]]
    /\ last' = [op |-> "send", n |-> last.n + 1]
    /\ UNCHANGED <<nodes, inbox, now>>

\* send_data line 172: route = self.route_table.get_route(destination_address)
UserLookup(n) ==
    /\ threads["user"].pc = "lookup"
    /\ LET g == RouteTable_get_route(nodes[n].route_table, threads["user"].dest, now)
       IN  /\ nodes' = [nodes EXCEPT ![n].route_table.routes = g.routes]
           /\ threads' = [threads EXCEPT !["user"] =
                 [pc |-> "send", packet |-> threads["user"].packet, route |-> g.ret]]
    /\ UNCHANGED <<inbox, now, last>>

\* send_data lines 173-189: send on the route's interface, or on all of them
UserTransmit(n) ==
    /\ threads["user"].pc = "send"
    /\ LET route == threads["user"].route
           packet == threads["user"].packet
           S == nodes[n]
           r == IF route /= <<>>
                THEN IF S.phy[route[1].interface].online
                     THEN UDPPhycore_send(S, route[1].interface, Packet_to_bytes(packet))
                     ELSE [S |-> S, ret |-> FALSE]
                ELSE Node_send_packet(S, packet)
       IN  Finish(n, r.S, inbox, last)
    /\ threads' = [threads EXCEPT !["user"] = [pc |-> "idle"]]
    /\ UNCHANGED now

NextConc ==
    \/ \E t \in {"rx1", "rx2"}, data \in ConcFrames : RxRecv("bob", t, data, ConcOps)
    \/ \E t \in {"rx1", "rx2"} :
          RxCheck("bob", t) \/ RxAdd("bob", t) \/ RxPurge("bob", t) \/ RxDispatch("bob", t)
    \/ UserSend("bob", "aA", TextPayload("yo"), TRUE, ConcOps)
    \/ UserLookup("bob")
    \/ UserTransmit("bob")

SpecConc == InitAnn /\ [][NextConc]_vars

\* frame F was handed to _on_packet_received at least twice
DeliveredTwice(S, F) ==
    \E i, j \in 1..Len(S.received) :
        i < j /\ S.received[i] = F /\ S.received[j] = F

\* C3: when the listen threads of two transports hand the same signed DATA
\* frame for this node to the node at the same time, on_data is called
\* exactly once, whatever the interleaving of the two dispatches.
C3_ConcurrentDedupe ==
    \A F \in ConcFrames :
        (/\ IsOwnData(nodes["bob"], F)
         /\ DeliveredTwice(nodes["bob"], F)
         /\ threads["rx1"].pc = "idle" /\ threads["rx2"].pc = "idle")
        => Callbacks(nodes["bob"], F) = 1

\* both listen threads delivered the frame and on_data was called once
C3_Witness ==
    \E F \in ConcFrames :
        /\ IsOwnData(nodes["bob"], F)
        /\ DeliveredTwice(nodes["bob"], F)
        /\ threads["rx1"].pc = "idle" /\ threads["rx2"].pc = "idle"
        /\ Callbacks(nodes["bob"], F) = 1

\* thread t is inside code that reads or writes the dedupe set, the identity
\* cache, the route table, the transfer map or the colony map
InsideNode(t) == threads[t].pc \in {"check", "add", "purge", "dispatch", "lookup"}

\* C4: the dispatch of an inbound frame is mutually exclusive with every
\* other dispatch and with send_data: at most one thread at a time is inside
\* code that reads or writes the node's tables.
C4_DispatchMutualExclusion ==
    Cardinality({t \in ThreadNames : InsideNode(t)}) <= 1

\* one thread is dispatching while the others are outside the node
C4_Witness ==
    /\ threads["rx1"].pc = "dispatch"
    /\ ~InsideNode("rx2")
    /\ ~InsideNode("user")

(***************************************************************************)
(* Spec: alice and bob, one UDP phycore each, linked to each other         *)
(***************************************************************************)
LinkNodes == {"alice", "bob"}

Peer(n) == IF n = "alice" THEN "bob" ELSE "alice"

Init == InitOf(Linked("kA", "bob"), Linked("kB", "alice"))

Next ==
    \/ \E n \in LinkNodes : Announce(n, NetOps)
    \/ \E n \in LinkNodes, text \in {"hi", "yo"}, sign \in BOOLEAN :
          SendData(n, nodes[Peer(n)].address, TextPayload(text), sign, NetOps)
    \/ \E n \in LinkNodes, p \in Interfaces : Deliver(n, p)

Spec == Init /\ [][Next]_vars

\* the frame a signed send_data call of node S puts on the wire
SignedDataFrame(S, call) ==
    Packet_to_bytes(Packet_sign(Packet("DATA", call.destination, call.payload, {}), S.key))

InFlight(n, F) ==
    \E p \in Interfaces : \E k \in 1..Len(inbox[n][p]) : inbox[n][p][k] = F

\* the i-th send_data call of alice is a signed send to bob of a payload she
\* sends only once, made when bob had cached her announce, and its frame
\* has been delivered
SignedSendArrived(i) ==
    LET call == nodes["alice"].sent[i]
    IN  /\ call.destination = nodes["bob"].address
        /\ call.sign /\ call.known /\ call.ret
        /\ \A j \in 1..Len(nodes["alice"].sent) :
              nodes["alice"].sent[j].payload = call.payload => j = i
        /\ ~InFlight("bob", SignedDataFrame(nodes["alice"], call))

\* C1: after bob cached alice's announce, a signed send_data from alice to
\* bob makes bob's on_data fire exactly once, with that payload and with
\* source_address equal to alice's address.
C1_SignedDataDeliveredOnce ==
    \A i \in 1..Len(nodes["alice"].sent) :
        SignedSendArrived(i) =>
            /\ Cardinality({k \in 1..Len(nodes["bob"].on_data) :
                  nodes["bob"].on_data[k].payload = nodes["alice"].sent[i].payload}) = 1
            /\ \A k \in 1..Len(nodes["bob"].on_data) :
                  nodes["bob"].on_data[k].payload = nodes["alice"].sent[i].payload =>
                      nodes["bob"].on_data[k].source_address = nodes["alice"].address

\* alice's signed payload reached bob's callback with her address as source
C1_Witness ==
    /\ Len(nodes["bob"].identity_cache.identities) = 1
    /\ \E i \in 1..Len(nodes["alice"].sent) :
          /\ SignedSendArrived(i)
          /\ \E k \in 1..Len(nodes["bob"].on_data) :
                /\ nodes["bob"].on_data[k].payload = nodes["alice"].sent[i].payload
                /\ nodes["bob"].on_data[k].source_address = nodes["alice"].address

(***************************************************************************)
(* SpecChain: alice - bob - charlie, no link between alice and charlie     *)
(* (tests/test_routing.py, test_three_node_routing)                        *)
(***************************************************************************)
ChainBob ==
    NewNode("kB", <<"t1", "t2">>,
            [p \in Interfaces |-> IF p = "t1" THEN {<<"alice", "t1">>}
                                  ELSE {<<"charlie", "t1">>}],
            AllFull, MAX_SEEN_PACKETS, MAX_CACHE_ENTRIES, MAX_CACHE_ENTRIES, ROUTE_TIMEOUT)

ChainCharlie ==
    NewNode("kC", <<"t1">>,
            [p \in Interfaces |-> IF p = "t1" THEN {<<"bob", "t2">>} ELSE {}],
            AllFull, MAX_SEEN_PACKETS, MAX_CACHE_ENTRIES, MAX_CACHE_ENTRIES, ROUTE_TIMEOUT)

InitChain ==
    /\ nodes = [n \in NodeNames |-> IF n = "alice" THEN Linked("kA", "bob")
                                    ELSE IF n = "bob" THEN ChainBob ELSE ChainCharlie]
    /\ inbox = EmptyInbox
    /\ threads = IdleThreads
    /\ now = 0
    /\ last = NoOp

NextChain ==
    \/ \E n \in NodeNames : NotAnnounced(n) /\ Announce(n, ChainOps)
    \/ \E n \in NodeNames, p \in Interfaces : Deliver(n, p)
    \/ \E n \in NodeNames, p \in Interfaces : Service(n, p)
    \/ \E sign \in BOOLEAN :
          SendData("alice", nodes["charlie"].address, TextPayload("ping"), sign, ChainOps)

SpecChain == InitChain /\ [][NextChain]_vars

\* alice sent a payload to charlie after the chain settled, and it arrived
PingArrived ==
    /\ Settled
    /\ \E i \in 1..Len(nodes["alice"].sent) :
          /\ nodes["alice"].sent[i].destination = nodes["charlie"].address
          /\ nodes["alice"].sent[i].settled

\* C11: in the chain, once all three announced and every announce queue
\* has been serviced, alice's route to charlie has hops = 1 and next_hop =
\* bob's address, and a send_data from alice to charlie reaches charlie's
\* on_data with that payload and packet.hop_count = 1.
C11_ChainRouteAndDelivery ==
    /\ Settled =>
          /\ HasKey(nodes["alice"].route_table.routes, nodes["charlie"].address)
          /\ Lookup(nodes["alice"].route_table.routes,
                    nodes["charlie"].address).hop_count = 1
          /\ Lookup(nodes["alice"].route_table.routes,
                    nodes["charlie"].address).next_hop = nodes["bob"].address
    /\ PingArrived =>
          \E k \in 1..Len(nodes["charlie"].on_data) :
              /\ nodes["charlie"].on_data[k].payload = TextPayload("ping")
              /\ nodes["charlie"].on_data[k].packet.hop_count = 1

\* the chain settled, alice routes to charlie in one hop through her only
\* phycore, and her payload reached charlie after one forward
C11_Witness ==
    /\ PingArrived
    /\ HasKey(nodes["alice"].route_table.routes, nodes["charlie"].address)
    /\ Lookup(nodes["alice"].route_table.routes, nodes["charlie"].address).hop_count = 1
    /\ \E k \in 1..Len(nodes["charlie"].on_data) :
          /\ nodes["charlie"].on_data[k].payload = TextPayload("ping")
          /\ nodes["charlie"].on_data[k].packet.hop_count = 1

(***************************************************************************)
(* SpecFwd: a relay with two phycores of any mode, forwarding enabled or   *)
(* not, receives announces and DATA packets for other nodes                *)
(***************************************************************************)
Modes == {"FULL", "ACCESS_POINT", "BOUNDARY"}

FwdFrames ==
    {Packet_to_bytes(Forwarded(AnnouncePacket("kA"), h)) : h \in {0, 3, MAX_HOPS - 1}}
    \cup {Packet_to_bytes(Forwarded(PlainData("aA", "hi"), h)) :
             h \in {0, MAX_HOPS - 1}}

Relay(modes, forwarding) ==
    [NewNode("kB", <<"t1", "t2">>, [p \in Interfaces |-> {World}], modes,
             MAX_SEEN_PACKETS, MAX_CACHE_ENTRIES, MAX_CACHE_ENTRIES, SmallTimeout)
        EXCEPT !.enable_forwarding = forwarding]

InitFwd ==
    /\ \E modes \in [Interfaces -> Modes], forwarding \in BOOLEAN :
          nodes = [n \in NodeNames |-> IF n = "bob" THEN Relay(modes, forwarding)
                                       ELSE Unplugged(IF n = "alice" THEN "kA" ELSE "kC")]
    /\ inbox = EmptyInbox
    /\ threads = IdleThreads
    /\ now = 0
    /\ last = NoOp

NextFwd ==
    \/ Tick
    \/ \E p \in Interfaces : StopPhycore("bob", p)
    \/ \E p \in Interfaces, data \in FwdFrames :
          nodes["bob"].phy[p].online /\ RxFrame("bob", p, data, FwdOps)

SpecFwd == InitFwd /\ [][NextFwd]_vars

\* the packet of the last received frame
LastPacket == Packet_from_bytes(last.data).packet

\* the last dispatched packet passed the forwarding test of
\* _on_packet_received and the hop limit after the increment
WillForward ==
    /\ last.pre.enable_forwarding
    /\ LastPacket.hop_count < last.pre.max_hops
    /\ LastPacket.hop_count + 1 < last.pre.max_hops

\* transport T may carry the forward of an announce that arrived on R with
\* hop count h after the increment
Eligible(S, T, R, h) ==
    /\ T /= R
    /\ S.phy[T].online
    /\ S.phy[T].mode /= "ACCESS_POINT"
    /\ ~(S.phy[T].mode = "BOUNDARY" /\ h > 3)

\* C12: a forwarded ANNOUNCE that arrived on R is enqueued on a transport T
\* if and only if T is not R, T is online, T is not an ACCESS_POINT and not
\* (T is BOUNDARY and the incremented hop count exceeds 3).
C12_AnnounceForwardTargets ==
    (DispatchedAnnounce /\ WillForward) =>
        \A T \in Interfaces :
            nodes[last.node].phy[T].announce_queue =
                IF Eligible(last.pre, T, last.phy, LastPacket.hop_count + 1)
                THEN SortQueue(Append(last.pre.phy[T].announce_queue,
                        <<LastPacket.hop_count + 1, last.at,
                          Packet_to_bytes(Forwarded(LastPacket, LastPacket.hop_count + 1))>>))
                ELSE last.pre.phy[T].announce_queue

\* an announce with hop count 4 after the increment was enqueued on the
\* other phycore, a FULL one, while the BOUNDARY phycore it arrived on got
\* nothing
C12_Witness ==
    /\ DispatchedAnnounce /\ WillForward
    /\ LastPacket.hop_count + 1 > 3
    /\ last.pre.phy[last.phy].mode = "BOUNDARY"
    /\ \E T \in Interfaces :
          /\ T /= last.phy
          /\ Len(nodes[last.node].phy[T].announce_queue)
                = Len(last.pre.phy[T].announce_queue) + 1
    /\ nodes[last.node].phy[last.phy].announce_queue
          = last.pre.phy[last.phy].announce_queue

\* the last operation dispatched a new frame
DispatchedFrame ==
    /\ last.op = "rx"
    /\ Packet_from_bytes(last.data).ok
    /\ last.data \notin last.pre.seen_packets

\* the frames the last operation put into the announce queue of phycore T
NewlyQueued(T) ==
    {nodes[last.node].phy[T].announce_queue[k][3] :
        k \in 1..Len(nodes[last.node].phy[T].announce_queue)}
    \ {last.pre.phy[T].announce_queue[k][3] :
        k \in 1..Len(last.pre.phy[T].announce_queue)}

\* the frames the last operation forwarded: transmitted or enqueued
ForwardedFrames ==
    {last.tx[k][2] : k \in 1..Len(last.tx)} \cup UNION {NewlyQueued(T) : T \in Interfaces}

\* C13: every forward raises hop_count by exactly 1, nothing is transmitted
\* or enqueued by forwarding with hop_count >= max_hops, and a node with
\* enable_forwarding false forwards nothing.
C13_HopLimit ==
    DispatchedFrame =>
        /\ \A F \in ForwardedFrames :
              /\ F.header.hop_count = LastPacket.hop_count + 1
              /\ F.header.hop_count < last.pre.max_hops
              /\ F = Packet_to_bytes(Forwarded(LastPacket, LastPacket.hop_count + 1))
        /\ ~last.pre.enable_forwarding => ForwardedFrames = {}

\* a packet whose incremented hop count would reach max_hops was dispatched
\* by a forwarding relay and nothing left the node
C13_Witness ==
    /\ DispatchedFrame
    /\ last.pre.enable_forwarding
    /\ LastPacket.hop_count + 1 = last.pre.max_hops
    /\ LastPacket.destination /= last.pre.address
    /\ ForwardedFrames = {}

\* C14: a DATA packet for another node is forwarded by at most one
\* transmission, on the transport of the unexpired route to its destination
\* and only if that transport is online; without such a route nothing is
\* sent on any transport, and DATA is never enqueued.
C14_DataForwardedOnRouteOnly ==
    ForwardedData =>
        /\ \A T \in Interfaces : NewlyQueued(T) = {}
        /\ LET dest == LastPacket.destination
               e == Lookup(PreRoutes, dest)
           IN  IF /\ WillForward
                  /\ HasKey(PreRoutes, dest)
                  /\ last.at - e.timestamp <= last.pre.route_table.route_timeout
                  /\ last.pre.phy[e.interface].online
               THEN last.tx = << <<e.interface,
                        Packet_to_bytes(Forwarded(LastPacket, LastPacket.hop_count + 1))>> >>
               ELSE last.tx = <<>>

\* a DATA packet for another node was dispatched while the route to it
\* pointed at a phycore that had been stopped, and nothing was sent
C14_Witness ==
    /\ ForwardedData /\ WillForward
    /\ HasKey(PreRoutes, LastPacket.destination)
    /\ last.at - Lookup(PreRoutes, LastPacket.destination).timestamp
          <= last.pre.route_table.route_timeout
    /\ ~last.pre.phy[Lookup(PreRoutes, LastPacket.destination).interface].online
    /\ last.tx = <<>>

(***************************************************************************)
(* SpecSend: a node with two phycores learns routes from announces, its    *)
(* phycores may be stopped, and its user calls send_data                   *)
(***************************************************************************)
InitSend ==
    /\ nodes = [n \in NodeNames |->
                  IF n = "bob" THEN Relay([p \in Interfaces |-> "FULL"], TRUE)
                  ELSE Unplugged(IF n = "alice" THEN "kA" ELSE "kC")]
    /\ inbox = EmptyInbox
    /\ threads = IdleThreads
    /\ now = 0
    /\ last = NoOp

NextSend ==
    \/ Tick
    \/ \E p \in Interfaces : StopPhycore("bob", p)
    \/ \E p \in Interfaces :
          /\ nodes["bob"].phy[p].online
          /\ RxFrame("bob", p, Packet_to_bytes(AnnouncePacket("kA")), SendOps)
    \/ \E dest \in {"aA", "aC"}, sign \in BOOLEAN :
          SendData("bob", dest, TextPayload("hi"), sign, SendOps)

SpecSend == InitSend /\ [][NextSend]_vars

\* the frame the last send_data call built
SentFrame ==
    LET unsigned == Packet("DATA", last.dest, last.payload, {})
    IN  Packet_to_bytes(IF last.sign THEN Packet_sign(unsigned, last.pre.key)
                        ELSE unsigned)

\* the last send_data call found an unexpired route
RouteKnown ==
    /\ HasKey(PreRoutes, last.dest)
    /\ last.at - Lookup(PreRoutes, last.dest).timestamp
          <= last.pre.route_table.route_timeout

\* the transports of the calling node that were online at the call
OnlineTransports == {p \in Interfaces : last.pre.phy[p].online}

\* C15: send_data sends exactly once on the route's transport when a route
\* exists and that transport is online; otherwise, with no route or with
\* the route's transport offline, it broadcasts on every online transport;
\* it returns failure only when no transport is online or none accepted.
C15_SendDataRouteOrBroadcast ==
    last.op = "send_data" =>
        /\ IF RouteKnown /\ Lookup(PreRoutes, last.dest).interface \in OnlineTransports
           THEN last.tx = << <<Lookup(PreRoutes, last.dest).interface, SentFrame>> >>
           ELSE /\ {last.tx[k][1] : k \in 1..Len(last.tx)} = OnlineTransports
                /\ Len(last.tx) = Cardinality(OnlineTransports)
                /\ \A k \in 1..Len(last.tx) : last.tx[k][2] = SentFrame
        /\ ~last.ret => \A p \in OnlineTransports : last.pre.phy[p].destinations = {}

\* send_data was called while the route's transport was offline and the
\* other transport was online
C15_Witness ==
    /\ last.op = "send_data"
    /\ RouteKnown
    /\ Lookup(PreRoutes, last.dest).interface \notin OnlineTransports
    /\ OnlineTransports /= {}
    /\ last.tx = <<>>
    /\ ~last.ret

(***************************************************************************)
(* SpecQueue: a relay whose phycores have a small announce budget receives *)
(* announces, and its announce queues are serviced as time passes          *)
(***************************************************************************)
\* PhycoreBase.__init__: the budget of a phycore of the given bandwidth
AnnounceBudget(bandwidth_bps) == (bandwidth_bps * ANNOUNCE_BUDGET_PERCENT) \div 100

SlowRelay ==
    LET S == Relay([p \in Interfaces |-> "FULL"], TRUE)
    IN  [S EXCEPT !.phy = [p \in Interfaces |->
            [S.phy[p] EXCEPT !.announce_budget_bps = AnnounceBudget(SlowBandwidth)]]]

QueueFrames ==
    {Packet_to_bytes(Forwarded(AnnouncePacket("kA"), 1)),
     Packet_to_bytes(AnnouncePacket("kC"))}
    \cup {Packet_to_bytes(Packet("ANNOUNCE", "aA", Payload(ANNOUNCE_PAYLOAD_LEN, "kA", "kA", ""), {}))}

InitQueue ==
    /\ nodes = [n \in NodeNames |->
                  IF n = "bob" THEN SlowRelay
                  ELSE Unplugged(IF n = "alice" THEN "kA" ELSE "kC")]
    /\ inbox = EmptyInbox
    /\ threads = IdleThreads
    /\ now = 0
    /\ last = NoOp

NextQueue ==
    \/ Tick
    \/ StopPhycore("bob", "t2")
    \/ \E data \in QueueFrames : RxFrame("bob", "t1", data, QueueOps)
    \/ Service("bob", "t2")

SpecQueue == InitQueue /\ [][NextQueue]_vars

Sorted(q) == \A i \in 1..(Len(q) - 1) : QueueKeyLeq(q[i], q[i + 1])

RECURSIVE TxBits(_)
TxBits(tx) == IF tx = <<>> THEN 0 ELSE FrameLen(Head(tx)[2]) * 8 + TxBits(Tail(tx))

\* the bits the last service tick had available
TickBits ==
    (last.at - last.pre.phy[last.phy].last_announce_time)
        * last.pre.phy[last.phy].announce_budget_bps

\* C16: every announce queue is sorted by (hop_count, enqueue time) after
\* every enqueue and every service tick; a service tick transmits only
\* from the head of the queue, within the available bits, and stops at the
\* first head that does not fit, so that announces leave the transport in
\* (hop_count, arrival time) order.
C16_QueueOrderAndHeadService ==
    /\ \A n \in NodeNames : \A p \in Interfaces : Sorted(nodes[n].phy[p].announce_queue)
    /\ last.op = "service" =>
          LET pre == last.pre.phy[last.phy].announce_queue
              post == nodes[last.node].phy[last.phy].announce_queue
              k == Len(pre) - Len(post)
          IN  /\ k >= 0
              /\ post = SubSeq(pre, k + 1, Len(pre))
              /\ \/ last.tx = [i \in 1..k |-> <<last.phy, pre[i][3]>>]
                 \/ last.tx = <<>>
              /\ TxBits(last.tx) <= TickBits
              /\ post /= <<>> => FrameLen(post[1][3]) * 8 > TickBits - TxBits(last.tx)

\* a service tick sent the head of a queue of several announces that had
\* arrived out of hop order, and stopped at the next head, which did not fit
C16_Witness ==
    /\ last.op = "service"
    /\ Len(last.tx) >= 1
    /\ nodes[last.node].phy[last.phy].announce_queue /= <<>>
    /\ Len(nodes[last.node].phy[last.phy].announce_queue) < 
          Len(last.pre.phy[last.phy].announce_queue)
    /\ TickBits - TxBits(last.tx) > 0
    /\ \E i, j \in 1..Len(last.pre.received) :
          /\ i < j
          /\ last.pre.received[i].header.hop_count > last.pre.received[j].header.hop_count

(***************************************************************************)
(* SpecBudget: announces pile up in the queue of a slow phycore and the    *)
(* queue is serviced at any time                                           *)
(***************************************************************************)
NextBudget ==
    \/ Tick
    \/ /\ Cardinality(nodes["bob"].seen_packets) < BurstLen
       /\ RxFrame("bob", "t1",
                  Packet_to_bytes(Forwarded(AnnouncePacket("kA"),
                                            Cardinality(nodes["bob"].seen_packets))),
                  BurstLen)
    \/ Service("bob", "t2")

SpecBudget == InitQueue /\ [][NextBudget]_vars

\* what phycore p of S transmitted from its announce queue: <<p, time, frame>>
EmittedOn(S, p) == SelectSeq(S.emitted, LAMBDA e : e[1] = p)

RECURSIVE EmittedBytes(_, _, _)
EmittedBytes(log, i, j) ==
    IF i > j THEN 0 ELSE FrameLen(log[i][3]) + EmittedBytes(log, i + 1, j)

\* C17: for every transport and every window that contains at least 10
\* announce transmissions from its queue, the bytes transmitted within the
\* window are at most announce_budget_bps/8 * W * 1.1.  The window taken
\* for transmissions i..j is the whole seconds from the i-th to the j-th,
\* W = t_j - t_i + 1, the longest a window around just these can be.
C17_BandwidthBudget ==
    \A n \in NodeNames : \A p \in Interfaces :
        LET log == EmittedOn(nodes[n], p)
        IN  \A i, j \in 1..Len(log) :
                j - i + 1 >= 10 =>
                    EmittedBytes(log, i, j) * 8 * 10
                        <= nodes[n].phy[p].announce_budget_bps
                               * (log[j][2] - log[i][2] + 1) * 11

\* the first service tick of a phycore found ten announces queued and
\* transmitted all of them
C17_Witness ==
    /\ last.op = "service"
    /\ last.pre.phy[last.phy].last_announce_time = 0 - StartTime
    /\ Len(last.pre.phy[last.phy].announce_queue) >= 10
    /\ Len(last.tx) = Len(last.pre.phy[last.phy].announce_queue)

(***************************************************************************)
(* Fragmentation and reassembly (transport/fragments.py).  A byte string   *)
(* is a sequence of numbers 0..255, a str a sequence of ASCII codes, a     *)
(* dict of str a sequence of [key, value] entries in insertion order, and  *)
(* a fragment payload the record of the fields struct.pack lays out.       *)
(***************************************************************************)
Min(a, b) == IF a <= b THEN a ELSE b

\* s[a:b] of Python, for 0 <= a
Slice(s, a, b) == SubSeq(s, a + 1, Min(b, Len(s)))

NEWLINE == 10
EQUALS == 61
Whitespace == {9, 10, 11, 12, 13, 28, 29, 30, 31, 32}

\* struct.pack('!H', n) and struct.unpack('!H', b)[0]
PackH(n) == <<(n \div 256) % 256, n % 256>>
UnpackH(b) == b[1] * 256 + b[2]

\* '\n'.join([f"{k}={v}" for k, v in metadata.items()]).encode('utf-8')
RECURSIVE MetaEncode(_)
MetaEncode(metadata) ==
    IF metadata = <<>> THEN <<>>
    ELSE metadata[1].key \o <<EQUALS>> \o metadata[1].value
         \o (IF Len(metadata) > 1 THEN <<NEWLINE>> \o MetaEncode(Tail(metadata)) ELSE <<>>)

\* str.split(sep): the pieces between the separators
RECURSIVE Split(_, _)
Split(str, sep) ==
    IF \E i \in 1..Len(str) : str[i] = sep
    THEN LET i == CHOOSE i \in 1..Len(str) :
                     str[i] = sep /\ \A j \in 1..(i - 1) : str[j] /= sep
         IN  <<SubSeq(str, 1, i - 1)>> \o Split(SubSeq(str, i + 1, Len(str)), sep)
    ELSE <<str>>

\* str.strip()
RECURSIVE Strip(_)
Strip(str) ==
    IF str = <<>> THEN str
    ELSE IF str[1] \in Whitespace THEN Strip(Tail(str))
    ELSE IF str[Len(str)] \in Whitespace THEN Strip(SubSeq(str, 1, Len(str) - 1))
    ELSE str

\* the loop of extract_metadata over the lines of the decoded header
RECURSIVE MetaLines(_, _)
MetaLines(lines, metadata) ==
    IF lines = <<>> THEN metadata
    ELSE LET line == Head(lines)
         IN  IF \E i \in 1..Len(line) : line[i] = EQUALS
             THEN LET i == CHOOSE i \in 1..Len(line) :
                              line[i] = EQUALS /\ \A j \in 1..(i - 1) : line[j] /= EQUALS
                  IN  MetaLines(Tail(lines),
                                DictSet(metadata, Strip(SubSeq(line, 1, i - 1)),
                                        Strip(SubSeq(line, i + 1, Len(line)))))
             ELSE MetaLines(Tail(lines), metadata)

\* returns [metadata, actual_data]
Fragmenter_extract_metadata(reassembled_data) ==
    IF Len(reassembled_data) < 2
    THEN [metadata |-> <<>>, actual_data |-> reassembled_data]
    ELSE LET meta_len == UnpackH(reassembled_data)
         IN  IF meta_len = 0 \/ Len(reassembled_data) < 2 + meta_len
             THEN [metadata |-> <<>>, actual_data |-> reassembled_data]
             ELSE LET meta_bytes == Slice(reassembled_data, 2, 2 + meta_len)
                      actual_data == Slice(reassembled_data, 2 + meta_len,
                                           Len(reassembled_data))
                  IN  IF \A i \in 1..Len(meta_bytes) : meta_bytes[i] < 128
                      THEN [metadata |-> MetaLines(Split(meta_bytes, NEWLINE), <<>>),
                            actual_data |-> actual_data]
                      ELSE [metadata |-> <<>>, actual_data |-> reassembled_data]

\* returns [ok, fragments]: ok is false when ValueError is raised
Fragmenter_fragment(data, metadata, transfer_id) ==
    IF Len(data) > MAX_TRANSFER_SIZE
    THEN [ok |-> FALSE, error |-> "Data too large", fragments |-> <<>>]
    ELSE LET meta_bytes == MetaEncode(metadata)
             full == IF metadata /= <<>>
                     THEN PackH(Len(meta_bytes)) \o meta_bytes \o data
                     ELSE data
             total_fragments == (Len(full) + FRAGMENT_DATA_SIZE - 1) \div FRAGMENT_DATA_SIZE
         IN  IF total_fragments > MAX_FRAGMENTS
             THEN [ok |-> FALSE, error |-> "Too many fragments", fragments |-> <<>>]
             ELSE [ok |-> TRUE, error |-> None,
                   fragments |-> [k \in 1..total_fragments |->
                       [transfer_id |-> transfer_id,
                        index |-> (k - 1) % 256,
                        flags |-> IF k = total_fragments THEN FRAGMENT_FLAG_FINAL ELSE 0,
                        data |-> Slice(full, (k - 1) * FRAGMENT_DATA_SIZE,
                                       Min((k - 1) * FRAGMENT_DATA_SIZE + FRAGMENT_DATA_SIZE,
                                           Len(full)))]]]

Fragmenter_parse_fragment(fragment_payload) ==
    [transfer_id |-> fragment_payload.transfer_id,
     index |-> fragment_payload.index,
     flags |-> fragment_payload.flags,
     is_final |-> fragment_payload.flags % 2 = FRAGMENT_FLAG_FINAL,
     data |-> fragment_payload.data]

FragmentedTransfer(transfer_id, sender_address, t) ==
    [key |-> transfer_id, sender_address |-> sender_address, fragments |-> <<>>,
     start_time |-> t, is_final_received |-> FALSE, expected_fragments |-> None]

FragmentedTransfer_is_complete(T) ==
    IF ~T.is_final_received THEN FALSE
    ELSE Len(T.fragments) = T.expected_fragments

\* mutant: an empty FINAL marker is stored like a data fragment
FragmentedTransfer_add_fragment_StoresMarker(T, index, data, is_final) ==
    LET T1 == [T EXCEPT !.fragments = DictSet(@, index, data)]
    IN  IF is_final
        THEN [T1 EXCEPT !.is_final_received = TRUE, !.expected_fragments = index + 1]
        ELSE T1

\* returns the transfer afterwards
FragmentedTransfer_add_fragment(T, index, data, is_final) ==
    IF is_final /\ Len(data) = 0
    THEN [T EXCEPT !.is_final_received = TRUE, !.expected_fragments = index + 1]
    ELSE LET T1 == [T EXCEPT !.fragments = DictSet(@, index, data)]
         IN  IF is_final
             THEN [T1 EXCEPT !.is_final_received = TRUE, !.expected_fragments = index + 1]
             ELSE T1

FragmentedTransfer_is_expired(T, t) == (t - T.start_time) > TRANSFER_TIMEOUT

\* returns [ok, data]: ok is false when ValueError is raised
RECURSIVE ReassembleFrom(_, _)
ReassembleFrom(T, i) ==
    IF i >= T.expected_fragments THEN [ok |-> TRUE, data |-> <<>>]
    ELSE IF ~HasKey(T.fragments, i) THEN [ok |-> FALSE, data |-> <<>>]
    ELSE LET rest == ReassembleFrom(T, i + 1)
         IN  [ok |-> rest.ok, data |-> Lookup(T.fragments, i).value \o rest.data]

FragmentedTransfer_reassemble(T) ==
    IF ~FragmentedTransfer_is_complete(T) THEN [ok |-> FALSE, data |-> <<>>]
    ELSE ReassembleFrom(T, 0)

FragmentedTransfer_get_progress(T) ==
    IF ~T.is_final_received THEN Len(T.fragments) * 20
    ELSE (Len(T.fragments) * 100) \div T.expected_fragments

\* mutant: the sweep drops every transfer
TransferManager_cleanup_expired_All(transfers, t) == <<>>

TransferManager_cleanup_expired(transfers, t) ==
    SelectSeq(transfers, LAMBDA T : ~FragmentedTransfer_is_expired(T, t))

\* mutant: the newest transfer is evicted
OldestTransfer_Newest(transfers) ==
    CHOOSE i \in 1..Len(transfers) :
        \A j \in 1..Len(transfers) : transfers[i].start_time >= transfers[j].start_time

\* the transfer min(..., key=start_time) picks: the first of the oldest
OldestTransfer(transfers) ==
    CHOOSE i \in 1..Len(transfers) :
        /\ \A j \in 1..Len(transfers) : transfers[i].start_time <= transfers[j].start_time
        /\ \A j \in 1..(i - 1) : transfers[j].start_time > transfers[i].start_time

\* returns [S, ret]: ret.raised is true when reassemble raised ValueError
TransferManager_handle_fragment(S, fragment_payload, sender_address, t) ==
    LET frag == Fragmenter_parse_fragment(fragment_payload)
        transfer_id == frag.transfer_id
        old == S.transfer_manager.transfers
        cleaned == TransferManager_cleanup_expired(old, t)
        room == IF Len(cleaned) >= S.transfer_manager.max_concurrent
                THEN RemoveAt(cleaned, OldestTransfer(cleaned))
                ELSE cleaned
        known == IF HasKey(old, transfer_id) THEN old
                 ELSE Append(room, FragmentedTransfer(transfer_id, sender_address, t))
        i == IndexOf(known, transfer_id)
        transfer == FragmentedTransfer_add_fragment(known[i], frag.index, frag.data,
                                                    frag.is_final)
        stored == [known EXCEPT ![i] = transfer]
    IN  IF FragmentedTransfer_is_complete(transfer)
        THEN LET r == FragmentedTransfer_reassemble(transfer)
                 e == Fragmenter_extract_metadata(r.data)
             IN  IF ~r.ok
                 THEN [S |-> [S EXCEPT !.transfer_manager.transfers = stored],
                       ret |-> [raised |-> TRUE, complete |-> FALSE]]
                 ELSE [S |-> [S EXCEPT !.transfer_manager.transfers = RemoveAt(stored, i),
                                       !.files = Append(@,
                                           [transfer_id |-> transfer_id,
                                            data |-> e.actual_data,
                                            metadata |-> e.metadata,
                                            sender |-> sender_address,
                                            reassembled |-> r.data])],
                       ret |-> [raised |-> FALSE, complete |-> TRUE, progress |-> 100,
                                transfer_id |-> transfer_id,
                                size |-> Len(e.actual_data)]]
        ELSE [S |-> [S EXCEPT !.transfer_manager.transfers = stored],
              ret |-> [raised |-> FALSE, complete |-> FALSE,
                       progress |-> FragmentedTransfer_get_progress(transfer),
                       transfer_id |-> transfer_id,
                       received |-> Len(transfer.fragments),
                       total |-> IF transfer.is_final_received
                                 THEN transfer.expected_fragments ELSE "?"]]

(***************************************************************************)
(* SpecFrag: alice fragments a payload, the fragments reach the transfer   *)
(* manager of bob in any order                                             *)
(***************************************************************************)
TransferIds == {"x1", "x2"}

\* n bytes that start with head and go on with letters that differ by position
MakeData(head, n) ==
    [i \in 1..n |-> IF i <= Len(head) THEN head[i] ELSE 65 + (i % 26)]

SmallData ==
    {MakeData(head, n) : head \in {<<>>, <<0, 0>>, <<0, 1>>},
                         n \in {0, 1, 3, FRAGMENT_DATA_SIZE, FRAGMENT_DATA_SIZE + 1,
                                2 * FRAGMENT_DATA_SIZE + 1}}

\* None, {"f": "a"}, {"f": "a", "s": "3"} and {"f": "a "}
MetaInputs ==
    {<<>>,
     <<[key |-> <<102>>, value |-> <<97>>]>>,
     <<[key |-> <<102>>, value |-> <<97>>], [key |-> <<115>>, value |-> <<51>>]>>,
     <<[key |-> <<102>>, value |-> <<97, 32>>]>>}

\* the fragments in flight to node n
InFlightTo(n) == inbox[n]["t1"]

\* the user of node n calls Fragmenter.fragment, once in a run, and sends
\* what it returns to node m
Fragment(n, m, data, metadata) ==
    /\ nodes[n].sent = <<>>
    /\ \E transfer_id \in TransferIds :
          LET r == Fragmenter_fragment(data, metadata, transfer_id)
              call == [op |-> "fragment", transfer_id |-> transfer_id, data |-> data,
                       metadata |-> metadata, ok |-> r.ok, count |-> Len(r.fragments)]
          IN  /\ nodes' = [nodes EXCEPT ![n].sent = Append(@, call)]
              /\ inbox' = [inbox EXCEPT ![m]["t1"] = @ \o r.fragments]
              /\ last' = [op |-> "fragment", n |-> last.n + 1, node |-> n,
                          transfer_id |-> transfer_id, len |-> Len(data),
                          metadata |-> metadata, ok |-> r.ok, error |-> r.error,
                          count |-> Len(r.fragments)]
    /\ UNCHANGED <<threads, now>>

\* the k-th fragment in flight to node n arrives and is handed to
\* transfer_manager.handle_fragment
HandleFragment(n, k, sender_address) ==
    /\ k \in 1..Len(InFlightTo(n))
    /\ LET r == TransferManager_handle_fragment(nodes[n], InFlightTo(n)[k],
                                                sender_address, now)
       IN  Finish(n, r.S, [inbox EXCEPT ![n]["t1"] = RemoveAt(@, k)],
                  [op |-> "handle_fragment", n |-> last.n + 1, node |-> n,
                   fragment |-> InFlightTo(n)[k], ret |-> r.ret,
                   pre |-> nodes[n], at |-> now])
    /\ UNCHANGED <<threads, now>>

NextFrag ==
    \/ \E data \in SmallData, metadata \in MetaInputs :
          Fragment("alice", "bob", data, metadata)
    \/ \E k \in 1..(2 * MAX_FRAGMENTS) : HandleFragment("bob", k, "aA")

SpecFrag == InitSend /\ [][NextFrag]_vars

\* the call that started the transfer of the last handled fragment
LastCall ==
    LET calls == nodes["alice"].sent
    IN  calls[CHOOSE i \in 1..Len(calls) :
                  calls[i].transfer_id = last.fragment.transfer_id]

\* fragments of that transfer are still in flight
Outstanding ==
    \E k \in 1..Len(InFlightTo(last.node)) :
        InFlightTo(last.node)[k].transfer_id = last.fragment.transfer_id

\* what on_transfer_complete received last
LastFile == nodes[last.node].files[Len(nodes[last.node].files)]

DictEq(a, b) ==
    /\ Len(a) = Len(b)
    /\ {<<a[i].key, a[i].value>> : i \in 1..Len(a)}
          = {<<b[i].key, b[i].value>> : i \in 1..Len(b)}

\* C18: whatever the order in which the fragments of an accepted payload
\* arrive, the transfer completes exactly when its last outstanding
\* fragment arrives, and on_transfer_complete receives the bytes of the
\* original payload and metadata equal to the input map.
C18_FragmentRoundTrip ==
    last.op = "handle_fragment" =>
        /\ last.ret.complete <=> ~Outstanding
        /\ last.ret.complete =>
              /\ LastFile.transfer_id = LastCall.transfer_id
              /\ LastFile.data = LastCall.data
              /\ DictEq(LastFile.metadata, LastCall.metadata)

\* a payload of three bytes fragmented without metadata was completed,
\* and what was delivered is shorter than what was sent
C18_Witness ==
    /\ last.op = "handle_fragment"
    /\ last.ret.complete
    /\ LastCall.metadata = <<>>
    /\ Len(LastFile.data) < Len(LastCall.data)

(***************************************************************************)
(* SpecLimit: payloads of every size around the limits are fragmented      *)
(***************************************************************************)
LimitLengths ==
    {0, 1, 2, FRAGMENT_DATA_SIZE, FRAGMENT_DATA_SIZE * MAX_FRAGMENTS - FRAGMENT_DATA_SIZE,
     FRAGMENT_DATA_SIZE * MAX_FRAGMENTS - 9, FRAGMENT_DATA_SIZE * MAX_FRAGMENTS - 8,
     FRAGMENT_DATA_SIZE * MAX_FRAGMENTS - 1, FRAGMENT_DATA_SIZE * MAX_FRAGMENTS,
     FRAGMENT_DATA_SIZE * MAX_FRAGMENTS + 1, 50000,
     MAX_TRANSFER_SIZE - 1, MAX_TRANSFER_SIZE, MAX_TRANSFER_SIZE + 1}

NextLimit ==
    \E n \in LimitLengths, metadata \in MetaInputs :
        Fragment("alice", "bob", MakeData(<<>>, n), metadata)

SpecLimit == InitSend /\ [][NextLimit]_vars

\* C19: Fragmenter.fragment accepts every payload of at most
\* MAX_TRANSFER_SIZE = 65,536 bytes: none is rejected for needing too many
\* fragments.
C19_AcceptsUpToMaxTransferSize ==
    (last.op = "fragment" /\ last.len <= MAX_TRANSFER_SIZE) => last.ok

\* a payload within the 64 KiB limit was rejected for needing more than
\* MAX_FRAGMENTS fragments
C19_Witness ==
    /\ last.op = "fragment"
    /\ last.len <= MAX_TRANSFER_SIZE
    /\ last.metadata = <<>>
    /\ ~last.ok
    /\ last.error = "Too many fragments"

(***************************************************************************)
(* SpecMarker: a peer sends data fragments without the FINAL flag and then *)
(* a pure FINAL marker, as the firmware does on FILE_END; they reach the   *)
(* transfer manager of bob in any order                                    *)
(***************************************************************************)
\* the data of the fragments: the first starts like a payload sent without
\* a metadata header or carries the header of {"f": "a"}
ChunkData(with_meta, i) ==
    IF i = 1
    THEN (IF with_meta
          THEN PackH(3) \o MetaEncode(<<[key |-> <<102>>, value |-> <<97>>]>>) \o <<65>>
          ELSE <<0, 0, 65>>)
    ELSE <<65 + i, 97 + i>>

\* the fragments of a transfer of n data fragments, indices 0..n-1, and an
\* empty fragment with the FINAL flag and index marker_index
MarkedFragments(transfer_id, with_meta, n, marker_index) ==
    [k \in 1..n |-> [transfer_id |-> transfer_id, index |-> k - 1, flags |-> 0,
                     data |-> ChunkData(with_meta, k)]]
    \o <<[transfer_id |-> transfer_id, index |-> marker_index,
          flags |-> FRAGMENT_FLAG_FINAL, data |-> <<>>]>>

RECURSIVE Concat(_)
Concat(chunks) == IF chunks = <<>> THEN <<>> ELSE Head(chunks) \o Concat(Tail(chunks))

\* a peer sends, once in a run, n data fragments and the marker; the firmware numbers the
\* marker like the last data fragment (marker_index = n - 1), a peer that
\* counts the marker as a fragment of its own numbers it n
SendMarked(n, m, count, with_meta, marker_index) ==
    /\ nodes[n].sent = <<>>
    /\ \E transfer_id \in TransferIds :
          LET fragments == MarkedFragments(transfer_id, with_meta, count, marker_index)
              call == [op |-> "marked", transfer_id |-> transfer_id,
                       chunks |-> [k \in 1..count |-> ChunkData(with_meta, k)],
                       marker_index |-> marker_index]
          IN  /\ nodes' = [nodes EXCEPT ![n].sent = Append(@, call)]
              /\ inbox' = [inbox EXCEPT ![m]["t1"] = @ \o fragments]
              /\ last' = [op |-> "marked", n |-> last.n + 1, node |-> n,
                          transfer_id |-> transfer_id, count |-> count,
                          marker_index |-> marker_index]
    /\ UNCHANGED <<threads, now>>

NextMarker ==
    \/ \E count \in 1..MaxChunks, with_meta \in BOOLEAN, d \in {0, 1} :
          SendMarked("alice", "bob", count, with_meta, count - 1 + d)
    \/ \E k \in 1..(MaxChunks + 1) : HandleFragment("bob", k, "aA")

SpecMarker == InitSend /\ [][NextMarker]_vars

\* for the transfer of the last handled fragment, when its marker has the
\* given distance from the index of its last data fragment: the transfer
\* completes as soon as the marker and all data fragments have arrived, and
\* the bytes reassembled are the data fragments in index order, which
\* on_transfer_complete receives with the metadata header split off
MarkerCompletes(d) ==
    (/\ last.op = "handle_fragment"
     /\ LastCall.marker_index = Len(LastCall.chunks) - 1 + d) =>
        /\ last.ret.complete <=> ~Outstanding
        /\ last.ret.complete =>
              /\ LastFile.transfer_id = LastCall.transfer_id
              /\ LastFile.reassembled = Concat(LastCall.chunks)
              /\ LastFile.data =
                    Fragmenter_extract_metadata(Concat(LastCall.chunks)).actual_data

\* C20 (as stated): data fragments 0..n-1 and an empty FINAL marker with
\* index n, the marker arriving at any position: the transfer completes
\* as soon as the marker and all n data fragments have been received and
\* the data fragments are delivered concatenated in index order.
C20_MarkerAfterLastIndex == MarkerCompletes(1)

\* C20 (amended): data fragments 0..n-1 and an empty FINAL marker with
\* index n-1, the index of the last data fragment, the marker arriving at
\* any position: the transfer completes as soon as the marker and all n
\* data fragments have been received, and the data fragments are
\* reassembled in index order.
C20_MarkerOnLastIndex == MarkerCompletes(0)

\* a transfer whose marker carried the index of its last data fragment
\* completed on a data fragment: the marker had arrived before it
C20_Witness ==
    /\ last.op = "handle_fragment"
    /\ LastCall.marker_index = Len(LastCall.chunks) - 1
    /\ Len(LastCall.chunks) >= 2
    /\ last.ret.complete
    /\ last.fragment.flags = 0
    /\ LastFile.reassembled = Concat(LastCall.chunks)

(***************************************************************************)
(* SpecTm: a transfer manager with room for few transfers handles          *)
(* fragments of several transfers while time passes                        *)
(***************************************************************************)
TmIds == {"x1", "x2", "x3"}

\* the last fragment of each transfer, different for each of them
TmTail(id) == IF id = "x1" THEN <<66>> ELSE IF id = "x2" THEN <<67>> ELSE <<68>>

\* what the two fragments of a transfer reassemble to
TmPayload(id) == <<0, 0>> \o TmTail(id)

\* of each transfer a first fragment and a second one that carries FINAL
TmFragments ==
    {[transfer_id |-> id, index |-> 0, flags |-> 0, data |-> <<0, 0>>] : id \in TmIds}
    \cup {[transfer_id |-> id, index |-> 1, flags |-> FRAGMENT_FLAG_FINAL,
           data |-> TmTail(id)] : id \in TmIds}

InitTm ==
    /\ nodes = [n \in NodeNames |->
                  IF n = "bob"
                  THEN [Relay([p \in Interfaces |-> "FULL"], TRUE)
                           EXCEPT !.transfer_manager.max_concurrent = SmallConcurrent]
                  ELSE Unplugged(IF n = "alice" THEN "kA" ELSE "kC")]
    /\ inbox = EmptyInbox
    /\ threads = IdleThreads
    /\ now = 0
    /\ last = NoOp

\* time passes
Sleep ==
    /\ now < MaxSleeps * SleepStep
    /\ now' = now + SleepStep
    /\ UNCHANGED <<nodes, inbox, threads, last>>

\* a fragment arrives and is handed to transfer_manager.handle_fragment
RxFragment(n, fragment, sender_address, bound) ==
    /\ last.n < bound
    /\ LET r == TransferManager_handle_fragment(nodes[n], fragment, sender_address, now)
       IN  Finish(n, [r.S EXCEPT !.frag_log = Append(@, <<now, fragment.transfer_id>>)],
                  inbox,
                  [op |-> "rx_fragment", n |-> last.n + 1, node |-> n,
                   fragment |-> fragment, ret |-> r.ret, pre |-> nodes[n], at |-> now])
    /\ UNCHANGED <<threads, now>>

NextTm ==
    \/ Sleep
    \/ \E fragment \in TmFragments : RxFragment("bob", fragment, "aA", TmOps)

SpecTm == InitTm /\ [][NextTm]_vars

PreTransfers == last.pre.transfer_manager.transfers
PostTransfers == nodes[last.node].transfer_manager.transfers

\* the transfers the expiry sweep leaves at the time of the last call
Unexpired == SelectSeq(PreTransfers, LAMBDA T : ~(last.at - T.start_time > TRANSFER_TIMEOUT))

\* C21: a transfer manager never holds more than max_concurrent transfers;
\* a fragment with an unknown transfer_id that finds max_concurrent
\* unexpired transfers evicts exactly one, one with the oldest start_time,
\* and its transfer is created; a fragment of a known transfer evicts
\* nothing.
C21_ConcurrentTransfersBounded ==
    /\ \A n \in NodeNames :
          Len(nodes[n].transfer_manager.transfers) <= nodes[n].transfer_manager.max_concurrent
    /\ last.op = "rx_fragment" =>
          LET id == last.fragment.transfer_id
              gone == KeysOf(Unexpired) \ KeysOf(PostTransfers)
          IN  IF HasKey(PreTransfers, id)
              THEN /\ KeysOf(PreTransfers) \ KeysOf(PostTransfers) \subseteq {id}
                   /\ id \notin KeysOf(PostTransfers) => last.ret.complete
              ELSE /\ id \in KeysOf(PostTransfers) \/ last.ret.complete
                   /\ IF Len(Unexpired) >= last.pre.transfer_manager.max_concurrent
                      THEN \E k \in gone :
                              /\ gone = {k}
                              /\ \A T \in {Unexpired[i] : i \in 1..Len(Unexpired)} :
                                    Lookup(Unexpired, k).start_time <= T.start_time
                      ELSE gone = {}

\* a fragment of a third transfer arrived while two unexpired transfers of
\* different age were in flight
C21_Witness ==
    /\ last.op = "rx_fragment"
    /\ ~HasKey(PreTransfers, last.fragment.transfer_id)
    /\ Len(Unexpired) >= last.pre.transfer_manager.max_concurrent
    /\ \E i, j \in 1..Len(Unexpired) : Unexpired[i].start_time < Unexpired[j].start_time
    /\ last.fragment.transfer_id \in KeysOf(PostTransfers)

\* C22: after handle_fragment has processed a fragment at time t, of a new
\* or of a known transfer, no transfer with t - start_time >
\* TRANSFER_TIMEOUT remains in the transfer map.
C22_ExpiredGoneAfterEveryFragment ==
    last.op = "rx_fragment" =>
        \A i \in 1..Len(PostTransfers) :
            ~(last.at - PostTransfers[i].start_time > TRANSFER_TIMEOUT)

\* a fragment of a known transfer was processed and a transfer older than
\* TRANSFER_TIMEOUT is still in the map
C22_Witness ==
    /\ last.op = "rx_fragment"
    /\ HasKey(PreTransfers, last.fragment.transfer_id)
    /\ \E i \in 1..Len(PostTransfers) :
          last.at - PostTransfers[i].start_time > TRANSFER_TIMEOUT

\* the transfers the expiry sweep of the last call removed
Swept ==
    IF HasKey(PreTransfers, last.fragment.transfer_id) THEN {}
    ELSE {PreTransfers[i] : i \in 1..Len(PreTransfers)}
            \ {Unexpired[i] : i \in 1..Len(Unexpired)}

\* the times at which fragments of transfer T had arrived before the last call
ProgressTimes(T) ==
    {last.pre.frag_log[i][1] : i \in {j \in 1..Len(last.pre.frag_log) :
        /\ last.pre.frag_log[j][2] = T.key
        /\ last.pre.frag_log[j][1] >= T.start_time}}

\* C23: the expiry sweep never removes a transfer that received a fragment
\* less than TRANSFER_TIMEOUT seconds ago, however long ago its first
\* fragment arrived.
C23_SweepOnlyAfterNoProgress ==
    last.op = "rx_fragment" =>
        \A T \in Swept : \A t \in ProgressTimes(T) : last.at - t >= TRANSFER_TIMEOUT

\* the sweep removed a transfer whose latest fragment was younger than
\* TRANSFER_TIMEOUT
C23_Witness ==
    /\ last.op = "rx_fragment"
    /\ \E T \in Swept : \E t \in ProgressTimes(T) :
          /\ last.at - t < TRANSFER_TIMEOUT
          /\ t > T.start_time

(***************************************************************************)
(* SpecColony: alice creates a colony, bob and charlie join it with her    *)
(* key material, all three announce on one shared link, and alice sends    *)
(***************************************************************************)
ColonyOps == 1
GroupKeys == {"g1", "g2"}
Nonces == {"n1"}

\* a node that does not forward, with one phycore t1 that reaches phycore
\* t1 of every peer
Mesh(key, peers) ==
    [NewNode(key, <<"t1">>,
             [p \in Interfaces |-> IF p = "t1" THEN {<<m, "t1">> : m \in peers} ELSE {}],
             AllFull, MAX_SEEN_PACKETS, MAX_CACHE_ENTRIES, MAX_CACHE_ENTRIES, ROUTE_TIMEOUT)
        EXCEPT !.enable_forwarding = FALSE]

InitColony ==
    /\ nodes = [n \in NodeNames |->
                   IF n = "alice" THEN Mesh("kA", {"bob", "charlie"})
                   ELSE IF n = "bob" THEN Mesh("kB", {"alice", "charlie"})
                   ELSE Mesh("kC", {"alice", "bob"})]
    /\ inbox = EmptyInbox
    /\ threads = IdleThreads
    /\ now = 0
    /\ last = NoOp

\* the user of node n calls create_colony and registers a callback on it
CreateColony(n, name) ==
    /\ nodes[n].colonies = <<>>
    /\ \E g \in GroupKeys :
          LET S == Node_create_colony(nodes[n], name, g)
              i == IndexOf(S.colonies, CryptoBackend_hash_sha256(g))
          IN  Finish(n, [S EXCEPT !.colonies[i].message_callback = TRUE], inbox,
                     [op |-> "create_colony", n |-> last.n, node |-> n,
                      pre |-> nodes[n], at |-> now])
    /\ UNCHANGED <<threads, now>>

\* the user of node n calls join_colony with key material km and registers
\* a callback on the colony
JoinColony(n, km) ==
    /\ nodes[n].colonies = <<>>
    /\ LET S == Node_join_colony(nodes[n], km)
           i == IndexOf(S.colonies, km.colony_id)
       IN  Finish(n, [S EXCEPT !.colonies[i].message_callback = TRUE], inbox,
                  [op |-> "join_colony", n |-> last.n, node |-> n,
                   pre |-> nodes[n], at |-> now])
    /\ UNCHANGED <<threads, now>>

\* the user of node n calls add_member on its colony with the cached
\* identity of node m
AddMember(n, m) ==
    /\ nodes[n].colonies /= <<>>
    /\ HasKey(nodes[n].identity_cache.identities, nodes[m].address)
    /\ ~HasKey(nodes[n].colonies[1].members, nodes[m].address)
    /\ LET C == Colony_add_member(nodes[n].colonies[1], nodes[m].address,
                    Lookup(nodes[n].identity_cache.identities, nodes[m].address).identity,
                    None)
       IN  Finish(n, [nodes[n] EXCEPT !.colonies[1] = [C EXCEPT !.manual = TRUE]], inbox,
                  [op |-> "add_member", n |-> last.n, node |-> n,
                   pre |-> nodes[n], at |-> now])
    /\ UNCHANGED <<threads, now>>

\* every node holds the same colony and nobody called add_member
AllJoined ==
    \A m \in NodeNames :
        /\ nodes[m].colonies /= <<>>
        /\ nodes[m].colonies[1].key = nodes["alice"].colonies[1].key
        /\ ~nodes[m].colonies[1].manual

\* the user of node n calls send on its colony
ColonySend(n, message, bound) ==
    /\ nodes[n].colonies /= <<>>
    /\ Len(nodes[n].colonies[1].sent) < bound
    /\ \E nonce \in Nonces :
          LET r == Colony_send(nodes[n], nodes[n].colonies[1], message, nonce, now)
              call == [message |-> message, ret |-> r.ret, tx |-> r.S.tx,
                       ready |-> Settled /\ AllJoined]
          IN  Finish(n, [r.S EXCEPT !.colonies[1].sent = Append(@, call)], inbox,
                     [op |-> "colony_send", n |-> last.n, node |-> n, message |-> message,
                      ret |-> r.ret, tx |-> r.S.tx, pre |-> nodes[n], at |-> now])
    /\ UNCHANGED <<threads, now>>

Quiet == \A n \in NodeNames : \A p \in Interfaces : inbox[n][p] = <<>>

NextColony ==
    \/ \E n \in NodeNames : NotAnnounced(n) /\ Announce(n, 3)
    \/ \E n \in NodeNames, p \in Interfaces : Deliver(n, p)
    \/ Settled /\ CreateColony("alice", "forest")
    \/ \E n \in {"bob", "charlie"} :
          /\ nodes["alice"].colonies /= <<>>
          /\ JoinColony(n, Colony_get_key_material(nodes["alice"].colonies[1]))
    \/ \E n \in {"alice", "bob"}, m \in NodeNames : n /= m /\ Quiet /\ AddMember(n, m)
    \/ \E n \in NodeNames : Quiet /\ ColonySend(n, "hello", ColonyOps)

SpecColony == InitColony /\ [][NextColony]_vars

\* a message and its sender among the on_message calls of the colony of n
Heard(n, sender, message) ==
    \E k \in 1..Len(nodes[n].colonies[1].on_message) :
        /\ nodes[n].colonies[1].on_message[k].sender = sender
        /\ nodes[n].colonies[1].on_message[k].message = message

\* C24: once alice created the colony, bob and charlie joined it with her
\* key material, all three announced and nobody made a further membership
\* call, alice's send("hello") makes on_message of bob and of charlie fire
\* with alice's address and the text "hello" (checked when nothing is left
\* in flight).
C24_ColonySendReachesMembers ==
    (/\ nodes["alice"].colonies /= <<>>
     /\ \E k \in 1..Len(nodes["alice"].colonies[1].sent) :
           nodes["alice"].colonies[1].sent[k].ready
     /\ Quiet)
    => /\ Heard("bob", nodes["alice"].address, "hello")
       /\ Heard("charlie", nodes["alice"].address, "hello")

\* the scenario of C24 has run and the wire is quiet again
C24_Witness ==
    /\ nodes["alice"].colonies /= <<>>
    /\ \E k \in 1..Len(nodes["alice"].colonies[1].sent) :
          /\ nodes["alice"].colonies[1].sent[k].ready
          /\ nodes["alice"].colonies[1].sent[k].message = "hello"
    /\ Quiet

(***************************************************************************)
(* SpecGroup: one node that joined a colony receives DATA frames from      *)
(* members, from outsiders and from senders it has no identity of          *)
(***************************************************************************)
GroupOps == 3

ForestKeys ==
    [colony_id |-> CryptoBackend_hash_sha256("g1"), group_key |-> "g1", name |-> "forest"]

\* what may follow the colony id in a payload
EncryptedParts ==
    {encrypt_group_message("hello", "g1", "n1"),                \* by a holder of the key
     encrypt_group_message("hello", "g2", "n1"),                \* under another key
     [nonce |-> ZeroNonce, ciphertext |-> RawBytes("evil"),     \* no key used at all
      len |-> NONCE_SIZE + 4],
     [nonce |-> "n1", ciphertext |-> RawBytes(""), len |-> 4]}  \* too short for a nonce

GroupPackets ==
    {Packet("DATA", "aB", ColonyPayload(ForestKeys.colony_id, e), {}) : e \in EncryptedParts}
    \cup {PlainData("aB", "f1"),
          Packet("DATA", "aB", TextPayload("f2"), {"FRAGMENTED"}),
          Packet("DATA", "aB",
                 ColonyPayload(ForestKeys.colony_id,
                               encrypt_group_message("hello", "g1", "n1")),
                 {"FRAGMENTED"})}

GroupFrames ==
    {Packet_to_bytes(AnnouncePacket("kA"))}
    \cup {Packet_to_bytes(Packet_sign(packet, "kA")) : packet \in GroupPackets}
    \cup {Packet_to_bytes(Packet_sign(packet, "kC")) : packet \in GroupPackets}
    \cup {Packet_to_bytes(Packet("DATA", "aB", ColonyPayload(ForestKeys.colony_id, e), {})) :
             e \in EncryptedParts}

InitGroup ==
    InitOf(Unplugged("kA"), Linked("kB", "alice"))

NextGroup ==
    \/ JoinColony("bob", ForestKeys)
    \/ \E data \in GroupFrames : RxFrame("bob", "t1", data, GroupOps)

SpecGroup == InitGroup /\ [][NextGroup]_vars

\* the last operation was the receipt of a frame that parsed as a packet
RxPacket == last.op = "rx" /\ Packet_from_bytes(last.data).ok
LastRx == Packet_from_bytes(last.data).packet

\* the encrypted part was produced by encrypting under group_key
EncryptedUnder(encrypted, group_key) ==
    /\ encrypted.len >= NONCE_SIZE
    /\ encrypted.ciphertext.aead
    /\ encrypted.ciphertext.key = group_key
    /\ encrypted.ciphertext.nonce = encrypted.nonce

\* C25: a received payload reaches on_message of the colony, or changes its
\* member map, only if its encrypted part was produced by encrypting under
\* the colony's group_key; knowing the colony_id alone is not enough, and a
\* payload that fails decryption changes nothing.
C25_GroupKeyIsMembership ==
    (/\ RxPacket
     /\ last.pre.colonies /= <<>>
     /\ \/ nodes["bob"].colonies[1].on_message /= last.pre.colonies[1].on_message
        \/ nodes["bob"].colonies[1].members /= last.pre.colonies[1].members)
    => EncryptedUnder(LastRx.payload.second32, last.pre.colonies[1].group_key)

\* a payload naming the colony whose encrypted part was not made with the
\* group key has been received by the node that joined
C25_Witness ==
    /\ RxPacket
    /\ last.pre.colonies /= <<>>
    /\ LastRx.payload.len >= COLONY_ID_LEN
    /\ LastRx.payload.first32 = last.pre.colonies[1].key
    /\ ~EncryptedUnder(LastRx.payload.second32, last.pre.colonies[1].group_key)

\* the last operation received a signed DATA packet addressed to the node
\* whose signature verifies against no cached identity
UnverifiableData ==
    /\ RxPacket
    /\ LastRx.packet_type = "DATA"
    /\ LastRx.destination = last.pre.address
    /\ Packet_is_signed(LastRx)
    /\ \A i \in 1..Len(last.pre.identity_cache.identities) :
          ~Packet_verify(LastRx, last.pre.identity_cache.identities[i].identity)

\* C26: a signed DATA packet addressed to the node whose signature verifies
\* against no cached identity is dropped: on_data does not fire, and neither
\* the transfer manager nor a colony handler is invoked.
C26_UnverifiableSignedDataDropped ==
    UnverifiableData =>
        /\ nodes["bob"].on_data = last.pre.on_data
        /\ nodes["bob"].transfers = last.pre.transfers
        /\ nodes["bob"].colony_msgs = last.pre.colony_msgs

\* such a packet arrived for the first time
C26_Witness ==
    /\ UnverifiableData
    /\ last.data \notin last.pre.seen_packets

(***************************************************************************)
(* Claims about signatures across hops (SpecChain)                         *)
(***************************************************************************)
\* the last operation delivered, for the first time, a signed DATA packet
\* addressed to the receiving node that relays forwarded, and the identity
\* at position i of the receiver's cache is the one that signed it when its
\* hop_count was 0
ForwardedFromCached(i) ==
    /\ RxPacket
    /\ LastRx.packet_type = "DATA"
    /\ LastRx.destination = last.pre.address
    /\ Packet_is_signed(LastRx)
    /\ LastRx.hop_count >= 1
    /\ last.data \notin last.pre.seen_packets
    /\ i \in 1..Len(last.pre.identity_cache.identities)
    /\ Packet_verify(Forwarded(LastRx, 0), last.pre.identity_cache.identities[i].identity)

\* C27: a signed DATA packet whose originator is cached at the destination
\* still verifies there after relays forwarded it, each incrementing
\* hop_count: it is delivered to on_data with source_address equal to the
\* originator's address.
C27_SignatureStableAcrossHops ==
    \A i \in 1..MAX_CACHE_ENTRIES :
        ForwardedFromCached(i) =>
            \E k \in 1..Len(nodes[last.node].on_data) :
                /\ nodes[last.node].on_data[k].packet = LastRx
                /\ nodes[last.node].on_data[k].source_address =
                      last.pre.identity_cache.identities[i].key

\* charlie, who cached alice's announce, received alice's signed packet
\* after bob forwarded it
C27_Witness ==
    \E i \in 1..MAX_CACHE_ENTRIES :
        /\ ForwardedFromCached(i)
        /\ last.node = "charlie"
        /\ last.pre.identity_cache.identities[i].key = nodes["alice"].address
        /\ LastRx.hop_count = 1

(***************************************************************************)
(* The wire format byte by byte (transport/packet.py)                      *)
(*                                                                         *)
(* Above, a frame is the record of its parts.  Here a frame is the         *)
(* sequence of its bytes, so that lengths and slices are computed as the   *)
(* code computes them.  A byte is a record: [d |-> v] holds the number v,  *)
(* [a, k] is byte k of an address, [h, k] byte k of the SHA-256 digest of  *)
(* h, and [s, k] byte k of the Ed25519 signature s.                        *)
(***************************************************************************)
SIGNED == 64                 \* PacketFlags.SIGNED = 0x40
ADDRESS_SIZE == 16           \* bytes of a destination address
HASH_SIZE == 8               \* bytes of the payload hash kept in the header

Byte(v) == [d |-> v]
NoBytes == <<>>              \* the signature of a packet that has none
AddressBytes(address) == [k \in 1..ADDRESS_SIZE |-> [a |-> address, k |-> k]]

\* CryptoBackend.hash_sha256(data)[:n]
HashBytes(data, n) == [k \in 1..n |-> [h |-> data, k |-> k]]

\* CryptoBackend.sign and CryptoBackend.verify on byte strings
SignatureBytes(private_key, message) ==
    [k \in 1..SIGNATURE_SIZE |-> [s |-> CryptoBackend_sign(private_key, message), k |-> k]]

VerifyBytes(public_key, message, signature) ==
    signature = SignatureBytes(public_key, message)

\* flags & bit, for a bit that is a power of two
HasFlag(flags, bit) == (flags \div bit) % 2 = 1

\* Packet(packet_type, destination, payload, ttl, flags) with hop_count set
WirePacket(packet_type, destination, payload, ttl, flags, hop_count) ==
    [packet_type |-> packet_type, flags |-> flags, ttl |-> ttl,
     hop_count |-> hop_count, destination |-> destination, payload |-> payload,
     signature |-> NoBytes]

WirePacket_is_signed(p) == HasFlag(p.flags, SIGNED)

\* struct.pack('!BBBB16sH8sH', ...)
WirePacket_serialize_header(p) ==
    <<Byte(p.flags), Byte(p.ttl), Byte(p.hop_count), Byte(p.packet_type)>>
    \o p.destination
    \o <<Byte(Len(p.payload) \div 256), Byte(Len(p.payload) % 256)>>
    \o HashBytes(p.payload, HASH_SIZE)
    \o <<Byte(0), Byte(0)>>

WirePacket_get_signing_data(p) == WirePacket_serialize_header(p) \o p.payload

WirePacket_sign(p, identity_key) ==
    LET q == [p EXCEPT !.flags = IF HasFlag(@, SIGNED) THEN @ ELSE @ + SIGNED]
    IN  [q EXCEPT !.signature = SignatureBytes(identity_key, WirePacket_get_signing_data(q))]

WirePacket_verify(p, public_key) ==
    IF ~WirePacket_is_signed(p) \/ p.signature = NoBytes THEN FALSE
    ELSE VerifyBytes(public_key, WirePacket_get_signing_data(p), p.signature)

\* mutant: the signature is left out of the frame
WirePacket_to_bytes_Unsigned(p) ==
    WirePacket_serialize_header(p) \o p.payload

WirePacket_to_bytes(p) ==
    WirePacket_serialize_header(p) \o p.payload
    \o (IF WirePacket_is_signed(p) /\ p.signature /= NoBytes THEN p.signature ELSE <<>>)

\* returns [ok |-> FALSE, error] when from_bytes raises, else [ok |-> TRUE, packet]
WirePacket_from_bytes(data) ==
    IF Len(data) < HEADER_SIZE
    THEN [ok |-> FALSE, error |-> "Data too short for packet header"]
    ELSE LET flags == data[1].d
             payload_length == data[21].d * 256 + data[22].d
             payload_hash == SubSeq(data, 23, 30)
             payload_end == HEADER_SIZE + payload_length
             payload == SubSeq(data, HEADER_SIZE + 1, payload_end)
             signature_end == payload_end + SIGNATURE_SIZE
             packet == [packet_type |-> data[4].d, flags |-> flags, ttl |-> data[2].d,
                        hop_count |-> data[3].d, destination |-> SubSeq(data, 5, 20),
                        payload |-> payload, signature |-> NoBytes]
         IN  IF Len(data) < payload_end
             THEN [ok |-> FALSE, error |-> "Data too short for payload"]
             ELSE IF HashBytes(payload, HASH_SIZE) /= payload_hash
             THEN [ok |-> FALSE, error |-> "Payload hash mismatch"]
             ELSE IF ~HasFlag(flags, SIGNED)
             THEN [ok |-> TRUE, packet |-> packet]
             ELSE IF Len(data) < signature_end
             THEN [ok |-> FALSE, error |-> "Data too short for signature"]
             ELSE [ok |-> TRUE,
                   packet |-> [packet EXCEPT !.signature =
                                  SubSeq(data, payload_end + 1, signature_end)]]

(***************************************************************************)
(* SpecPacket: packets are encoded and decoded, and frames of any shape    *)
(* are decoded                                                             *)
(***************************************************************************)
MaxPayload == 2

WirePayloads == UNION {[1..n -> {Byte(7), Byte(9)}] : n \in 0..MaxPayload}

\* packets as the constructor makes them, of any type, flags, ttl and
\* hop_count that fit their byte
UnsignedPackets ==
    {WirePacket(t, AddressBytes(d), payload, ttl, flags, h) :
        t \in {1, 2}, d \in {"aB"}, payload \in WirePayloads,
        ttl \in {DEFAULT_TTL, 255}, flags \in {0, SIGNED, 176}, h \in {0, 3}}

WirePackets ==
    UnsignedPackets \cup {WirePacket_sign(p, "kA") : p \in UnsignedPackets}

\* the packet after a forwarder incremented hop_count
WireForwarded(p) == [p EXCEPT !.hop_count = @ + 1]

\* data with byte i replaced by b
WithByte(data, i, b) == [data EXCEPT ![i] = b]

\* frames a transport may hand over: encoded packets, whole or cut short
\* next to the end of a part, with one byte changed, or with a byte added
FramesOf(p) ==
    LET data == WirePacket_to_bytes(p)
        ends == {0, HEADER_SIZE, HEADER_SIZE + Len(p.payload), Len(data)}
        cuts == (ends \cup {n - 1 : n \in ends} \cup {n + 1 : n \in ends}) \cap 0..Len(data)
    IN  {SubSeq(data, 1, n) : n \in cuts}
        \cup {WithByte(data, i, Byte(8)) : i \in (HEADER_SIZE + 1)..(HEADER_SIZE + Len(p.payload))}
        \cup {WithByte(data, 22, Byte(v)) : v \in 0..(MaxPayload + 1)}
        \cup {WithByte(data, 23, [h |-> <<>>, k |-> 2])}
        \cup {data \o <<Byte(7)>>}

WireFrames == UNION {FramesOf(p) : p \in WirePackets}

InitPacket == InitOf(Unplugged("kA"), Unplugged("kB"))

\* p.to_bytes(), Packet.from_bytes of the result, and to_bytes of that
RoundTrip(p) ==
    /\ last.op = "init"
    /\ LET data == WirePacket_to_bytes(p)
           ret == WirePacket_from_bytes(data)
       IN  last' = [op |-> "round_trip", n |-> last.n + 1, packet |-> p, data |-> data,
                    ret |-> ret,
                    again |-> IF ret.ok THEN WirePacket_to_bytes(ret.packet) ELSE <<>>]
    /\ UNCHANGED <<nodes, inbox, threads, now>>

\* Packet.from_bytes(data)
FromBytes(data) ==
    /\ last.op = "init"
    /\ last' = [op |-> "from_bytes", n |-> last.n + 1, data |-> data,
                ret |-> WirePacket_from_bytes(data)]
    /\ UNCHANGED <<nodes, inbox, threads, now>>

NextPacket ==
    \/ \E p \in WirePackets : RoundTrip(p)
    \/ \E p \in WirePackets : RoundTrip(WireForwarded(p))
    \/ \E data \in WireFrames : FromBytes(data)

SpecPacket == InitPacket /\ [][NextPacket]_vars

\* the outcome of the last round trip has the fields of the packet, encodes
\* to the same frame, has the length the format gives, and verifies
\* against "kA" exactly if the packet did
RoundTripHolds ==
    /\ last.ret.ok
    /\ last.ret.packet = last.packet
    /\ last.again = last.data
    /\ Len(last.data) = HEADER_SIZE + Len(last.packet.payload)
                            + (IF WirePacket_is_signed(last.packet) THEN SIGNATURE_SIZE ELSE 0)
    /\ WirePacket_verify(last.ret.packet, "kA") = WirePacket_verify(last.packet, "kA")

\* C28 as stated: for every packet p, of any type, flags, ttl, hop_count,
\* destination and payload, signed or not, from_bytes(p.to_bytes()) has the
\* fields of p, encodes to the same frame of 32 + len(payload) bytes, plus
\* 64 when signed, and verifies if p did.
C28_RoundTripAnyFlags ==
    last.op = "round_trip" => RoundTripHolds

\* C28: the round trip holds for every packet whose SIGNED flag is set
\* exactly when it carries a signature, as sign() leaves it.
C28_RoundTrip ==
    (/\ last.op = "round_trip"
     /\ WirePacket_is_signed(last.packet) <=> last.packet.signature /= NoBytes)
    => RoundTripHolds

\* a packet signed by "kA" with a payload made the round trip and verifies
C28_Witness ==
    /\ last.op = "round_trip"
    /\ last.packet.signature /= NoBytes
    /\ last.packet.payload /= <<>>
    /\ last.ret.ok
    /\ WirePacket_verify(last.ret.packet, "kA")

(***************************************************************************)
(* SpecReject: a node receives frames that from_bytes rejects among frames *)
(* it accepts, and from_bytes is applied to frames of any shape            *)
(***************************************************************************)
RejectOps == 2

GoodFrames ==
    {Packet_to_bytes(AnnouncePacket("kA")),
     Packet_to_bytes(Packet_sign(PlainData("aB", "f1"), "kA")),
     Packet_to_bytes(Packet("DATA", "aB", TextPayload("f2"), {"FRAGMENTED"})),
     Packet_to_bytes(Packet_sign(
         Packet("DATA", "aB",
                ColonyPayload(ForestKeys.colony_id,
                              encrypt_group_message("hello", "g1", "n1")), {}), "kA"))}

\* a frame cut short next to the end of one of its parts, with another
\* payload than the header hashed, with a payload_length one too large, or
\* with another payload_hash
BadFramesOf(data) ==
    LET ends == {0, HEADER_SIZE, HEADER_SIZE + data.body.len, data.len}
        cuts == (ends \cup {n - 1 : n \in ends}) \cap 0..(data.len - 1)
    IN  {[data EXCEPT !.len = n] : n \in cuts}
        \cup {[data EXCEPT !.body.text = "zz"],
              [data EXCEPT !.header.payload_length = @ + 1],
              [data EXCEPT !.header.payload_hash =
                  CryptoBackend_hash_sha256([data.body EXCEPT !.text = "zz"])]}

BadFrames == UNION {BadFramesOf(data) : data \in GoodFrames}

InitReject == InitOf(Unplugged("kA"), Linked("kB", "alice"))

NextReject ==
    \/ JoinColony("bob", ForestKeys)
    \/ \E data \in GoodFrames \cup BadFrames : RxFrame("bob", "t1", data, RejectOps)
    \/ \E data \in WireFrames : FromBytes(data)

SpecReject == InitReject /\ [][NextReject]_vars

\* the four reasons to reject, read off the bytes of a frame
WireRejectable(data) ==
    IF Len(data) < HEADER_SIZE THEN TRUE
    ELSE LET payload_length == data[21].d * 256 + data[22].d
             rest == Len(data) - HEADER_SIZE
         IN  \/ payload_length > rest
             \/ /\ payload_length <= rest
                /\ HashBytes(SubSeq(data, HEADER_SIZE + 1, HEADER_SIZE + payload_length),
                             HASH_SIZE) /= SubSeq(data, 23, 30)
             \/ /\ payload_length <= rest
                /\ HasFlag(data[1].d, SIGNED)
                /\ rest - payload_length < SIGNATURE_SIZE

\* the same four reasons, read off the parts of a frame
Rejectable(data) ==
    \/ data.len < HEADER_SIZE
    \/ data.header.payload_length > data.len - HEADER_SIZE
    \/ data.header.payload_length /= data.body.len
    \/ CryptoBackend_hash_sha256(data.body) /= data.header.payload_hash
    \/ /\ "SIGNED" \in data.header.flags
       /\ data.len - HEADER_SIZE - data.header.payload_length < SIGNATURE_SIZE

\* C29: from_bytes rejects a frame shorter than 32 bytes, a payload_length
\* exceeding the bytes after the header, a payload whose hash does not
\* match payload_hash, and a SIGNED frame with fewer than 64 bytes after
\* the payload; a node that receives such a frame absorbs the rejection:
\* it transmits nothing, no callback fires, and its dedupe set, identity
\* cache, route table, transfers and colonies stay as they were.
C29_RejectedFramesAbsorbed ==
    /\ (last.op = "from_bytes" /\ WireRejectable(last.data)) => ~last.ret.ok
    /\ (last.op = "rx" /\ Rejectable(last.data)) =>
          /\ last.tx = <<>>
          /\ [nodes[last.node] EXCEPT !.received = last.pre.received] = last.pre

\* a node that joined a colony and has seen frames received a frame with a
\* whole header that from_bytes rejects
C29_Witness ==
    /\ last.op = "rx"
    /\ Rejectable(last.data)
    /\ last.data.len >= HEADER_SIZE
    /\ last.pre.seen_packets /= {}
    /\ last.pre.colonies /= <<>>
    /\ last.pre.identity_cache.identities /= <<>>

(***************************************************************************)
(* SpecStop: a relay started with periodic announces forwards announces    *)
(* and is stopped                                                          *)
(***************************************************************************)
StopOps == 3

StopFrames ==
    {Packet_to_bytes(Forwarded(AnnouncePacket(k), h)) : k \in {"kA", "kC"}, h \in {0, 1}}

\* the relay after start(auto_announce=True)
InitStop ==
    InitOf(Unplugged("kA"),
           [Relay(AllFull, TRUE) EXCEPT !.auto_announce = TRUE, !.announce_timer = "armed"])

\* the announce timer of node n fires
TimerFires(n, bound) ==
    /\ last.n < bound
    /\ nodes[n].announce_timer = "armed"
    /\ LET r == Node_schedule_next(nodes[n])
       IN  Finish(n, r.S, inbox,
                  [op |-> "timer", n |-> last.n + 1, node |-> n, ret |-> r.ret,
                   tx |-> r.S.tx, pre |-> nodes[n], at |-> now])
    /\ UNCHANGED <<threads, now>>

\* the user of node n calls stop
Stop(n) ==
    /\ last.op /= "stop"
    /\ Finish(n, Node_stop(nodes[n]), inbox,
              [op |-> "stop", n |-> last.n, node |-> n, pre |-> nodes[n], at |-> now])
    /\ UNCHANGED <<threads, now>>

NextStop ==
    \/ Tick
    \/ \E p \in Interfaces, data \in StopFrames :
          nodes["bob"].phy[p].online /\ RxFrame("bob", p, data, StopOps)
    \/ \E p \in Interfaces : nodes["bob"].phy[p].online /\ Service("bob", p)
    \/ TimerFires("bob", StopOps)
    \/ Stop("bob")

SpecStop == InitStop /\ [][NextStop]_vars

\* C30: when Node.stop() has returned, periodic announcing is stopped,
\* every transport of the node is offline, and the announce queue of every
\* transport is empty.
C30_StopDrainsAndHalts ==
    last.op = "stop" =>
        /\ ~nodes[last.node].auto_announce
        /\ nodes[last.node].announce_timer = None
        /\ \A k \in 1..Len(nodes[last.node].phycores) :
              LET p == nodes[last.node].phycores[k]
              IN  /\ ~nodes[last.node].phy[p].online
                  /\ nodes[last.node].phy[p].announce_queue = <<>>

\* stop() was called on a node whose transports were online and which had
\* an announce queued for forwarding
C30_Witness ==
    /\ last.op = "stop"
    /\ \A k \in 1..Len(last.pre.phycores) : last.pre.phy[last.pre.phycores[k]].online
    /\ \E k \in 1..Len(last.pre.phycores) :
          last.pre.phy[last.pre.phycores[k]].announce_queue /= <<>>

(***************************************************************************)
(* Claims about the dispatch of DATA packets (SpecGroup)                   *)
(***************************************************************************)
\* the last operation delivered, for the first time, a DATA packet
\* addressed to the receiving node
OwnDataArrived ==
    /\ RxPacket
    /\ LastRx.packet_type = "DATA"
    /\ LastRx.destination = last.pre.address
    /\ last.data \notin last.pre.seen_packets

\* the payload of the last packet begins with the id of a colony the node
\* knew
NamesKnownColony ==
    /\ LastRx.payload.len >= COLONY_ID_LEN
    /\ HasKey(last.pre.colonies, LastRx.payload.first32)

\* how many entries the last operation added to each handler's log
ToColony == Len(nodes[last.node].colony_msgs) - Len(last.pre.colony_msgs)
ToTransfers == Len(nodes[last.node].transfers) - Len(last.pre.transfers)
ToUser == Len(nodes[last.node].on_data) - Len(last.pre.on_data)

\* C31: a DATA packet addressed to the node is handed to exactly one
\* handler: to the colony if its payload begins with the id of a known
\* colony, also when FRAGMENTED is set; otherwise to the transfer manager
\* if FRAGMENTED is set; otherwise to the on_data callback.
C31_ColonyBeforeFragments ==
    OwnDataArrived =>
        IF NamesKnownColony
        THEN ToColony = 1 /\ ToTransfers = 0 /\ ToUser = 0
        ELSE IF Packet_is_fragmented(LastRx)
        THEN ToColony = 0 /\ ToTransfers = 1 /\ ToUser = 0
        ELSE ToColony = 0 /\ ToTransfers = 0 /\ ToUser = 1

\* a FRAGMENTED packet whose payload begins with the id of a known colony
\* arrived
C31_Witness ==
    /\ OwnDataArrived
    /\ NamesKnownColony
    /\ Packet_is_fragmented(LastRx)

(***************************************************************************)
(* The route an accepted announce offers to the route table.              *)
(***************************************************************************)
\* the announce passes the three tests of _handle_announce_packet
AnnounceAccepted(packet) ==
    /\ packet.payload.len >= ANNOUNCE_PAYLOAD_LEN
    /\ (Packet_is_signed(packet) /\ packet.hop_count = 0)
          => Packet_verify(packet, PublicIdentity(packet.payload.first32,
                                                  packet.payload.second32))
    /\ PublicIdentity(packet.payload.first32, packet.payload.second32).address
          = packet.destination

\* the last operation dispatched a new announce that was accepted
AcceptedAnnounce == DispatchedAnnounce /\ AnnounceAccepted(LastPacket)

\* the table that results from offering it the route the claim describes
OfferedTo(tbl) ==
    RouteTable_add_or_update(tbl, LastPacket.destination,
        IF LastPacket.hop_count = 0 THEN None ELSE LastPacket.destination,
        last.phy, LastPacket.hop_count, last.at).routes

ArbFragments ==
    {[transfer_id |-> "x1", index |-> index, flags |-> flags, data |-> data] :
        index \in 0..MaxIndex, flags \in {0, FRAGMENT_FLAG_FINAL},
        data \in {<<>>, <<65>>}}

NextArb ==
    \E fragment \in ArbFragments : RxFragment("bob", fragment, "aA", ArbOps)

SpecArb == InitTm /\ [][NextArb]_vars

\* the transfer of the last fragment as add_fragment left it
LastTransfer ==
    LET id == last.fragment.transfer_id
        frag == Fragmenter_parse_fragment(last.fragment)
        T == IF HasKey(PreTransfers, id) THEN Lookup(PreTransfers, id)
             ELSE FragmentedTransfer(id, "aA", last.at)
    IN  FragmentedTransfer_add_fragment(T, frag.index, frag.data, frag.is_final)

\* C33: whenever a transfer satisfies the completion condition
\* (is_final_received and len(fragments) = expected_fragments), a fragment
\* is stored for every index 0..expected_fragments-1, so reassembly in
\* ascending index order succeeds and the transfer is removed, for every
\* sequence of received fragments with arbitrary indices and FINAL flags.
C33_CompleteMeansContiguous ==
    (last.op = "rx_fragment" /\ FragmentedTransfer_is_complete(LastTransfer)) =>
        /\ \A i \in 0..(LastTransfer.expected_fragments - 1) :
              HasKey(LastTransfer.fragments, i)
        /\ ~last.ret.raised
        /\ last.ret.complete
        /\ ~HasKey(PostTransfers, last.fragment.transfer_id)

\* the completion condition was met by the last fragment
C33_Witness ==
    /\ last.op = "rx_fragment"
    /\ FragmentedTransfer_is_complete(LastTransfer)
    /\ Len(LastTransfer.fragments) >= 2

(***************************************************************************)
(* Independence of the transfers in flight (SpecTm).                       *)
(***************************************************************************)
\* the transfers other than that of the last fragment, before the call
Others ==
    {PreTransfers[i] : i \in {j \in 1..Len(PreTransfers) :
                                 PreTransfers[j].key /= last.fragment.transfer_id}}

\* the transfers of the table before the call that had not yet expired
Fresh ==
    {PreTransfers[i] : i \in {j \in 1..Len(PreTransfers) :
        ~(last.at - PreTransfers[j].start_time > TRANSFER_TIMEOUT)}}

\* B may be gone after the call: the fragment opened a new transfer, and B
\* had expired or was an oldest one of a full table
MayBeRemoved(B) ==
    /\ ~HasKey(PreTransfers, last.fragment.transfer_id)
    /\ \/ B \notin Fresh
       \/ /\ Cardinality(Fresh) >= last.pre.transfer_manager.max_concurrent
          /\ \A T \in Fresh : B.start_time <= T.start_time

\* the transfer ids of which a fragment has arrived at node n
IdsSeen(n) == {nodes[n].frag_log[i][2] : i \in 1..Len(nodes[n].frag_log)}

\* no time has passed and at most max_concurrent transfers took part
Interleaved ==
    /\ last.at = 0
    /\ Cardinality(IdsSeen(last.node)) <= last.pre.transfer_manager.max_concurrent

\* C34: handling a fragment of transfer A leaves the stored fragments,
\* is_final_received, expected_fragments and start_time of every other
\* transfer B in flight unchanged, unless B is removed by the expiry sweep
\* or the oldest-first eviction; and the fragments of up to max_concurrent
\* transfers, interleaved in any order, reassemble each to the payload of
\* their own transfer.
C34_TransfersIndependent ==
    last.op = "rx_fragment" =>
        /\ \A B \in Others :
              \/ /\ HasKey(PostTransfers, B.key)
                 /\ Lookup(PostTransfers, B.key) = B
              \/ /\ ~HasKey(PostTransfers, B.key)
                 /\ MayBeRemoved(B)
        /\ Interleaved =>
              /\ \A B \in Others : HasKey(PostTransfers, B.key)
              /\ (/\ LastTransfer.is_final_received
                  /\ \A i \in 0..1 : HasKey(LastTransfer.fragments, i)) =>
                    /\ last.ret.complete
                    /\ nodes[last.node].files[Len(nodes[last.node].files)].reassembled
                          = TmPayload(last.fragment.transfer_id)
              /\ \A k \in 1..Len(nodes[last.node].files) :
                    nodes[last.node].files[k].reassembled
                       = TmPayload(nodes[last.node].files[k].transfer_id)

\* the fragments of two transfers arrived alternately and both transfers
\* were reassembled
C34_Witness ==
    /\ last.op = "rx_fragment"
    /\ Interleaved
    /\ Len(nodes[last.node].files) = 2
    /\ nodes[last.node].files[1].transfer_id /= nodes[last.node].files[2].transfer_id
    /\ \A k \in 1..3 : nodes[last.node].frag_log[k][2] /= nodes[last.node].frag_log[k + 1][2]

\* the completions reported for transfer id at node n
Completions(n, id) ==
    {k \in 1..Len(nodes[n].files) : nodes[n].files[k].transfer_id = id}

\* C40: for a well-formed transfer on_transfer_complete is invoked at most
\* once per transfer_id, for every sequence of fragment arrivals at the
\* TransferManager, duplicates delivered after the transfer completed and
\* was removed included.
C40_CompleteAtMostOnce ==
    \A id \in TmIds : Cardinality(Completions("bob", id)) <= 1

\* a fragment arrived again after its transfer had completed and been removed
C40_Witness ==
    /\ last.op = "rx_fragment"
    /\ \E k \in 1..Len(last.pre.files) :
          last.pre.files[k].transfer_id = last.fragment.transfer_id
    /\ ~HasKey(PreTransfers, last.fragment.transfer_id)

(***************************************************************************)
(* SpecRing: alice, bob and charlie in a cycle; one of them announces      *)
(* once and the announce floods around the cycle in both directions        *)
(***************************************************************************)
\* the neighbour a phycore of a node is linked to: t2 of each node reaches
\* t1 of the next node of the cycle alice -> bob -> charlie -> alice
RingNext(n) == IF n = "alice" THEN "bob" ELSE IF n = "bob" THEN "charlie" ELSE "alice"
RingPrev(n) == IF n = "alice" THEN "charlie" ELSE IF n = "bob" THEN "alice" ELSE "bob"

\* a forwarding node of the cycle with max_hops lowered to RingHops
RingNode(n, key) ==
    [NewNode(key, <<"t1", "t2">>,
             [p \in Interfaces |-> IF p = "t2" THEN {<<RingNext(n), "t1">>}
                                   ELSE {<<RingPrev(n), "t2">>}],
             AllFull, MAX_SEEN_PACKETS, MAX_CACHE_ENTRIES, MAX_CACHE_ENTRIES, ROUTE_TIMEOUT)
        EXCEPT !.max_hops = RingHops]

InitRing ==
    /\ nodes = [n \in NodeNames |->
                   RingNode(n, IF n = "alice" THEN "kA" ELSE IF n = "bob" THEN "kB" ELSE "kC")]
    /\ inbox = EmptyInbox
    /\ threads = IdleThreads
    /\ now = 0
    /\ last = NoOp

NextRing ==
    \/ \E n \in NodeNames : last.op = "init" /\ Announce(n, 1)
    \/ \E n \in NodeNames, p \in Interfaces : Deliver(n, p)
    \/ \E n \in NodeNames, p \in Interfaces : Service(n, p)

SpecRing == InitRing /\ [][NextRing]_vars

(***************************************************************************)
(* SpecLoop: alice and bob are joined by two links, t1 to t1 and t2 to t2, *)
(* the shortest cycle; one of them announces once, and the announce goes   *)
(* round and round until the hop limit stops it, while time passes         *)
(***************************************************************************)
LoopNode(key, peer) ==
    [NewNode(key, <<"t1", "t2">>, [p \in Interfaces |-> {<<peer, p>>}],
             AllFull, MAX_SEEN_PACKETS, MAX_CACHE_ENTRIES, MAX_CACHE_ENTRIES, ROUTE_TIMEOUT)
        EXCEPT !.max_hops = LoopHops]

InitLoop == InitOf(LoopNode("kA", "bob"), LoopNode("kB", "alice"))

\* a transport holds queued announces and has spent the credit of this instant
Starved ==
    \E n \in NodeNames, p \in Interfaces :
        /\ nodes[n].phy[p].announce_queue /= <<>>
        /\ nodes[n].phy[p].last_announce_time = now

LoopClock == 2 * LoopHops

\* time passes between two service ticks of a transport
CreditTick ==
    /\ Starved
    /\ now < LoopClock
    /\ now' = now + 1
    /\ UNCHANGED <<nodes, inbox, threads, last>>

NextLoop ==
    \/ \E n \in LinkNodes : last.op = "init" /\ Announce(n, 1)
    \/ \E n \in LinkNodes, p \in Interfaces : Deliver(n, p)
    \/ \E n \in LinkNodes, p \in Interfaces : Service(n, p)
    \/ CreditTick

SpecLoop == InitLoop /\ [][NextLoop]_vars

\* a service tick of a transport that has credit: time has passed since its
\* last transmission from the queue
FundedService(n, p) ==
    /\ nodes[n].phy[p].last_announce_time < now
    /\ Service(n, p)

\* the network delivers the frames in flight, announce queues that have
\* credit are serviced, and time passes
SpecLoopFair ==
    /\ SpecLoop
    /\ WF_vars(\E n \in LinkNodes, p \in Interfaces : Deliver(n, p))
    /\ WF_vars(\E n \in LinkNodes, p \in Interfaces : FundedService(n, p))
    /\ WF_vars(CreditTick)

\* no copy of an announce is in an announce queue or in flight
NoCopies ==
    \A n \in NodeNames : \A p \in Interfaces :
        inbox[n][p] = <<>> /\ nodes[n].phy[p].announce_queue = <<>>

\* the announces the announce queues have transmitted so far
RECURSIVE ForwardsOf(_)
ForwardsOf(ns) ==
    IF ns = {} THEN 0
    ELSE LET n == CHOOSE n \in ns : TRUE
         IN  Len(nodes[n].emitted) + ForwardsOf(ns \ {n})

\* C35: announce flooding terminates: in a topology with a cycle a single
\* originated ANNOUNCE is forwarded only finitely many times (fewer than
\* max_hops times, no copy with a hop count of max_hops or more ever on the
\* wire), and with announce queues serviced fairly and no new announce
\* originated the network eventually reaches, and stays in, a state in
\* which no copy is in any announce queue or in flight.
C35_FloodingTerminates ==
    /\ [](/\ ForwardsOf(NodeNames) < LoopHops
          /\ \A n \in NodeNames : \A p \in Interfaces :
                \A k \in 1..Len(inbox[n][p]) :
                    Packet_from_bytes(inbox[n][p][k]).packet.hop_count < LoopHops)
    /\ <>[]NoCopies

\* the announce went round the cycle until the hop limit and has died out
C35_Witness ==
    /\ last.op /= "init"
    /\ NoCopies
    /\ ForwardsOf(NodeNames) = LoopHops - 1
    /\ now > 0

\* C38: a node never installs its own address in its route table or in its
\* identity cache, for every sequence of received announces, its own
\* announce returned by neighbours around a cycle included.
C38_NeverOwnAddress ==
    \A n \in NodeNames :
        /\ ~HasKey(nodes[n].route_table.routes, nodes[n].address)
        /\ ~HasKey(nodes[n].identity_cache.identities, nodes[n].address)

\* the announce of a node came back to it around the cycle
C38_Witness ==
    /\ last.op = "rx"
    /\ LastRx.packet_type = "ANNOUNCE"
    /\ LastRx.destination = nodes[last.node].address
    /\ LastRx.hop_count = 2

(***************************************************************************)
(* SpecDrain: the transport t2 of a relay has so small an announce budget  *)
(* that one announce costs the credit of more than one second; announces   *)
(* arrive, are queued on t2, and the queue is serviced as time passes      *)
(***************************************************************************)
TinyRelay ==
    LET S == Relay([p \in Interfaces |-> "FULL"], TRUE)
    IN  [S EXCEPT !.phy = [p \in Interfaces |->
            [S.phy[p] EXCEPT !.announce_budget_bps = AnnounceBudget(TinyBandwidth)]]]

\* the announce of alice as it arrives after h hops
DrainFrames == {Packet_to_bytes(Forwarded(AnnouncePacket("kA"), h)) : h \in 1..DrainOps}

InitDrain ==
    /\ nodes = [n \in NodeNames |->
                  IF n = "bob" THEN TinyRelay
                  ELSE Unplugged(IF n = "alice" THEN "kA" ELSE "kC")]
    /\ inbox = EmptyInbox
    /\ threads = IdleThreads
    /\ now = 0
    /\ last = NoOp

\* the bits a service tick of phycore p of node n would have available now
CreditBits(n, p) ==
    (now - nodes[n].phy[p].last_announce_time) * nodes[n].phy[p].announce_budget_bps

\* the head of the announce queue of phycore p of node n does not fit
HeadWaits(n, p) ==
    /\ nodes[n].phy[p].announce_queue /= <<>>
    /\ FrameLen(nodes[n].phy[p].announce_queue[1][3]) * 8 > CreditBits(n, p)

DrainClock == 3 * DrainOps

\* time passes while a head waits for credit
DrainTick ==
    /\ HeadWaits("bob", "t2")
    /\ now < DrainClock
    /\ now' = now + 1
    /\ UNCHANGED <<nodes, inbox, threads, last>>

NextDrain ==
    \/ DrainTick
    \/ \E data \in DrainFrames : RxFrame("bob", "t1", data, DrainOps)
    \/ Service("bob", "t2")

SpecDrain == InitDrain /\ [][NextDrain]_vars

\* service ticks keep occurring and time passes
SpecDrainFair ==
    /\ SpecDrain
    /\ WF_vars(Service("bob", "t2"))
    /\ WF_vars(DrainTick)

Transmitted(n, p, data) ==
    \E k \in 1..Len(nodes[n].emitted) :
        nodes[n].emitted[k][1] = p /\ nodes[n].emitted[k][3] = data

\* every announce the relay has taken in and queued on t2 was transmitted there
EveryQueuedSent ==
    \A h \in 1..DrainOps :
        (\E k \in 1..Len(nodes["bob"].received) :
            nodes["bob"].received[k] = Packet_to_bytes(Forwarded(AnnouncePacket("kA"), h)))
        => Transmitted("bob", "t2", Packet_to_bytes(Forwarded(AnnouncePacket("kA"), h + 1)))

\* the last service tick found a head that did not fit its bits
HeadDidNotFit ==
    /\ last.op = "service"
    /\ FrameLen(last.pre.phy[last.phy].announce_queue[1][3]) * 8 > TickBits

\* C36: while the transport stays online with a positive announce budget,
\* send succeeds and service ticks keep occurring, every queued announce is
\* eventually transmitted and, once no further announce is enqueued, the
\* queue becomes empty and stays empty; a head that does not fit the bits
\* available at one tick stays at the head, nothing is sent at that tick,
\* and it is sent at a later tick.
C36_QueueDrains ==
    /\ [](HeadDidNotFit =>
             /\ last.tx = <<>>
             /\ nodes[last.node].phy[last.phy].announce_queue
                   = last.pre.phy[last.phy].announce_queue)
    /\ <>[](/\ nodes["bob"].phy["t2"].announce_queue = <<>>
            /\ EveryQueuedSent)

\* a head that had to wait at one tick was transmitted at a later one
C36_Witness ==
    /\ last.op = "service"
    /\ last.tx /= <<>>
    /\ last.pre.phy["t2"].last_announce_time >= 0
    /\ last.at - last.pre.phy["t2"].last_announce_time >= 2
    /\ nodes["bob"].phy["t2"].announce_queue = <<>>
    /\ Len(nodes["bob"].emitted) = DrainOps

(***************************************************************************)
(* SpecTimer: bob announces periodically; the callback of the announce     *)
(* timer runs on the timer thread, statement by statement, while the user  *)
(* thread calls stop_announcing, statement by statement.  A threading.Timer *)
(* is "new" until start(), then "scheduled", and ends "fired" or           *)
(* "cancelled"; timers are numbered in the order of their creation and     *)
(* announce_timer holds the name of the timer it refers to.                *)
(***************************************************************************)
TimerThreads == {"timer", "user"}

\* the timer objects in the order of their creation
TimerObjects == <<"timer1", "timer2", "timer3", "timer4", "timer5", "timer6">>

\* the number of the timer a reference refers to
TimerOf(ref) == CHOOSE id \in 1..Len(TimerObjects) : TimerObjects[id] = ref

InitTimer ==
    /\ nodes = [n \in NodeNames |->
                  IF n = "bob" THEN Relay(AllFull, TRUE)
                  ELSE Unplugged(IF n = "alice" THEN "kA" ELSE "kC")]
    /\ inbox = EmptyInbox
    /\ threads = [t \in TimerThreads |->
                    IF t = "timer" THEN [pc |-> "idle", timers |-> <<>>, late |-> 0]
                    ELSE [pc |-> "idle"]]
    /\ now = 0
    /\ last = NoOp

\* threading.Timer.cancel(): a timer that has not fired will never fire
Timer_cancel(timers, id) ==
    IF timers[id] \in {"new", "scheduled"} THEN [timers EXCEPT ![id] = "cancelled"]
    ELSE timers

\* threading.Timer.start(): a timer cancelled before its start never fires
Timer_start(timers, id) ==
    IF timers[id] = "new" THEN [timers EXCEPT ![id] = "scheduled"] ELSE timers

\* stop_announcing() has returned
StopReturned == threads["user"].pc = "done"

\* the user of node n calls start_announcing(announce_now = announce_now)
StartAnnouncing(n, announce_now) ==
    /\ threads["user"].pc = "idle"
    /\ threads["timer"].timers = <<>>
    /\ LET S0 == [nodes[n] EXCEPT !.auto_announce = TRUE]
           S1 == IF announce_now THEN Node_announce(S0).S ELSE S0
       IN  Finish(n, [S1 EXCEPT !.announce_timer = TimerObjects[1]], inbox,
                  [op |-> "start_announcing", n |-> last.n, node |-> n,
                   tx |-> S1.tx, pre |-> nodes[n], at |-> now])
    /\ threads' = [threads EXCEPT !["timer"].timers = <<"scheduled">>,
                                  !["user"].pc = "started"]
    /\ UNCHANGED now

\* a scheduled timer fires: schedule_next starts to run on the timer thread
TimerExpires(id) ==
    /\ threads["timer"].pc = "idle"
    /\ id \in 1..Len(threads["timer"].timers)
    /\ threads["timer"].timers[id] = "scheduled"
    /\ threads' = [threads EXCEPT !["timer"].timers[id] = "fired",
                                  !["timer"].pc = "check"]
    /\ UNCHANGED <<nodes, inbox, now, last>>

\* if self.auto_announce:
CallbackCheck(n) ==
    /\ threads["timer"].pc = "check"
    /\ threads' = [threads EXCEPT !["timer"].pc =
                      IF nodes[n].auto_announce THEN "announce" ELSE "idle"]
    /\ UNCHANGED <<nodes, inbox, now, last>>

\* self.announce(verbose=False)
CallbackAnnounce(n) ==
    /\ threads["timer"].pc = "announce"
    /\ LET r == Node_announce(nodes[n])
       IN  Finish(n, r.S, inbox,
                  [op |-> "periodic_announce", n |-> last.n, node |-> n, ret |-> r.ret,
                   tx |-> r.S.tx, after_stop |-> StopReturned, at |-> now])
    /\ threads' = [threads EXCEPT !["timer"].pc = "arm",
                                  !["timer"].late = IF StopReturned THEN 1 ELSE @]
    /\ UNCHANGED now

\* self.announce_timer = threading.Timer(self.announce_interval, schedule_next)
CallbackArm(n) ==
    /\ threads["timer"].pc = "arm"
    /\ Len(threads["timer"].timers) < MaxTimers
    /\ nodes' = [nodes EXCEPT ![n].announce_timer =
                                 TimerObjects[Len(threads["timer"].timers) + 1]]
    /\ threads' = [threads EXCEPT !["timer"].timers = Append(@, "new"),
                                  !["timer"].pc = "daemon"]
    /\ UNCHANGED <<inbox, now, last>>

\* self.announce_timer.daemon = True: AttributeError ends the callback when
\* the attribute has been set to None in the meantime
CallbackDaemon(n) ==
    /\ threads["timer"].pc = "daemon"
    /\ threads' = [threads EXCEPT !["timer"].pc =
                      IF nodes[n].announce_timer = None THEN "idle" ELSE "start"]
    /\ UNCHANGED <<nodes, inbox, now, last>>

\* self.announce_timer.start()
CallbackStart(n) ==
    /\ threads["timer"].pc = "start"
    /\ threads' = [threads EXCEPT
          !["timer"].pc = "idle",
          !["timer"].timers = IF nodes[n].announce_timer = None THEN @
                              ELSE Timer_start(@, TimerOf(nodes[n].announce_timer))]
    /\ UNCHANGED <<nodes, inbox, now, last>>

\* stop_announcing: self.auto_announce = False
StopClearFlag(n) ==
    /\ threads["user"].pc = "started"
    /\ nodes' = [nodes EXCEPT ![n].auto_announce = FALSE]
    /\ threads' = [threads EXCEPT !["user"].pc = "test"]
    /\ UNCHANGED <<inbox, now, last>>

\* stop_announcing: if self.announce_timer:
StopTest(n) ==
    /\ threads["user"].pc = "test"
    /\ threads' = [threads EXCEPT !["user"].pc =
                      IF nodes[n].announce_timer = None THEN "done" ELSE "cancel"]
    /\ UNCHANGED <<nodes, inbox, now, last>>

\* stop_announcing: self.announce_timer.cancel()
StopCancel(n) ==
    /\ threads["user"].pc = "cancel"
    /\ threads' = [threads EXCEPT
          !["user"].pc = "clear",
          !["timer"].timers = Timer_cancel(@, TimerOf(nodes[n].announce_timer))]
    /\ UNCHANGED <<nodes, inbox, now, last>>

\* stop_announcing: self.announce_timer = None, and return
StopClear(n) ==
    /\ threads["user"].pc = "clear"
    /\ nodes' = [nodes EXCEPT ![n].announce_timer = None]
    /\ threads' = [threads EXCEPT !["user"].pc = "done"]
    /\ UNCHANGED <<inbox, now, last>>

NextTimer ==
    \/ \E announce_now \in BOOLEAN : StartAnnouncing("bob", announce_now)
    \/ \E id \in 1..MaxTimers : TimerExpires(id)
    \/ CallbackCheck("bob")
    \/ CallbackAnnounce("bob")
    \/ CallbackArm("bob")
    \/ CallbackDaemon("bob")
    \/ CallbackStart("bob")
    \/ StopClearFlag("bob")
    \/ StopTest("bob")
    \/ StopCancel("bob")
    \/ StopClear("bob")

SpecTimer == InitTimer /\ [][NextTimer]_vars

\* an announce timer is scheduled: it will fire
TimerScheduled ==
    \E id \in 1..Len(threads["timer"].timers) : threads["timer"].timers[id] = "scheduled"

\* C37: after stop_announcing() has returned no periodic announce is
\* transmitted any more and no announce timer remains scheduled, under
\* every interleaving of the stop call with an announce timer firing on the
\* timer thread.
C37_StopAnnouncingIsFinal ==
    StopReturned =>
        /\ threads["timer"].late = 0
        /\ ~TimerScheduled

\* stop_announcing ran from its first statement to its return while the
\* callback of a fired timer was between its check and its re-arm
C37_Witness ==
    /\ StopReturned
    /\ threads["timer"].pc = "announce"

(***************************************************************************)
(* Stale routes (SpecRT).                                                  *)
(***************************************************************************)
\* the table held an entry for the destination of the last call that was
\* older than route_timeout
StaleBefore ==
    /\ HasKey(PreRoutes, last.dest)
    /\ last.at - Lookup(PreRoutes, last.dest).timestamp
          > last.pre.route_table.route_timeout

\* the last call offered a route that is no better than the entry it found:
\* more hops, or the same hops by another next_hop
WorseOffer ==
    /\ last.op = "add_or_update"
    /\ HasKey(PreRoutes, last.dest)
    /\ \/ last.hop_count > Lookup(PreRoutes, last.dest).hop_count
       \/ /\ last.hop_count = Lookup(PreRoutes, last.dest).hop_count
          /\ last.next_hop /= Lookup(PreRoutes, last.dest).next_hop

\* C39: route expiry is observed only by lookup: an entry older than
\* route_timeout still takes part in the comparisons of add_or_update, so
\* an offer of more hops than the stale entry (or of equal hops by another
\* next_hop) returns false and leaves the stale entry in place, and the
\* next get_route for that destination returns None and removes it.
C39_StaleEntryStillCompared ==
    /\ (WorseOffer /\ StaleBefore) =>
          /\ last.ret = FALSE
          /\ PostRoutes = PreRoutes
    /\ (last.op = "get_route" /\ StaleBefore) =>
          /\ last.ret = <<>>
          /\ ~HasKey(PostRoutes, last.dest)

\* an offer of more hops was turned down in favour of an expired entry
C39_Witness ==
    /\ WorseOffer
    /\ StaleBefore
    /\ last.hop_count > Lookup(PreRoutes, last.dest).hop_count
    /\ last.ret = FALSE

=============================================================================
